---- MODULE Spec2Model ----
(***************************************************************************)
(* A model of the vplanet integration engine (evolve.c) driving the        *)
(* atmospheric-escape module (atmesc.c) and the stellar module             *)
(* (stellar.c).                                                            *)
(*                                                                         *)
(* Numbers.  The program computes in IEEE doubles.  The model computes in  *)
(* binary floating point of the same construction with a narrower          *)
(* significand: a number is m * 2^k with |m| < 2^MantBits, normalised      *)
(* (|m| >= 2^(MantBits-1)) unless k = KMin (gradual underflow), rounded    *)
(* to nearest-even after every operation, overflowing to infinity above    *)
(* KMax.  dHUGE is the largest finite number and dTINY = 1/dHUGE, as in    *)
(* vplanet.c.                                                              *)
(***************************************************************************)
EXTENDS Integers, Sequences, FiniteSets, TLC

\* Width of the significand, in bits (53 in the program).
MantBits == 8

\* Largest exponent of a finite number's unit in the last place (971 in
\* the program).
KMax == 971

KMin == 0 - (KMax + 2 * MantBits - 3)

RECURSIVE Pow2(_)
Pow2(n) == IF n <= 0 THEN 1 ELSE 2 * Pow2(n - 1)

\* Number of significant bits of a natural number.
RECURSIVE Bits(_)
Bits(n) == IF n = 0 THEN 0 ELSE 1 + Bits(n \div 2)

IAbs(i) == IF i < 0 THEN 0 - i ELSE i

ISign(i) == IF i < 0 THEN 0 - 1 ELSE IF i > 0 THEN 1 ELSE 0

IMin(a, b) == IF a < b THEN a ELSE b

IMax(a, b) == IF a < b THEN b ELSE a

Zero == [m |-> 0, k |-> 0]

\* +-infinity and NaN are tagged by exponents above KMax.
Inf(s) == [m |-> s, k |-> KMax + 1]

NaN == [m |-> 0, k |-> KMax + 2]

IsNaN(x) == x.k = KMax + 2

IsInf(x) == x.k = KMax + 1

IsFinite(x) == x.k <= KMax

\* s * q * 2^k for a significand q that fits, or infinity past KMax.
Finite(s, q, k) == IF k > KMax THEN Inf(s) ELSE [m |-> s * q, k |-> k]

\* The quotient q of a right shift, rounded to nearest with ties to even:
\* r is the part shifted out, half is half a unit of q.
RoundQ(q, r, half, sticky) ==
  IF r > half \/ (r = half /\ (sticky \/ q % 2 = 1)) THEN q + 1 ELSE q

\* A rounded significand that reached 2^MantBits takes the next exponent.
Carry(s, q, k) ==
  IF q = 0 THEN Zero
  ELSE IF q = Pow2(MantBits) THEN Finite(s, Pow2(MantBits - 1), k + 1)
  ELSE Finite(s, q, k)

\* mag has b bits and sh of them do not fit (sh <= 0: all fit, and the
\* significand is shifted left as far as normalisation asks and KMin allows).
RoundBits(s, mag, k, sticky, b, sh) ==
  IF sh <= 0
  THEN Finite(s, mag * Pow2(IMin(MantBits - b, k - KMin)),
              k - IMin(MantBits - b, k - KMin))
  ELSE IF sh > b + 1 THEN Zero
  ELSE Carry(s, RoundQ(mag \div Pow2(sh), mag % Pow2(sh), Pow2(sh - 1), sticky),
             k + sh)

RoundWidth(s, mag, k, sticky, b) ==
  RoundBits(s, mag, k, sticky, b, IMax(b - MantBits, KMin - k))

\* Round the exact value s * mag * 2^k (plus a positive remainder below one
\* unit of mag when sticky) to the nearest representable number, ties to
\* even.
RoundTo(s, mag, k, sticky) ==
  IF mag = 0 THEN Zero ELSE RoundWidth(s, mag, k, sticky, Bits(mag))

\* Round the exact value i * 2^k.
RoundSigned(i, k) == RoundTo(ISign(i), IAbs(i), k, FALSE)

\* The double nearest to an integer literal.
FromInt(i) == RoundSigned(i, 0)

Neg(x) == IF IsNaN(x) THEN NaN ELSE [m |-> 0 - x.m, k |-> x.k]

Abs(x) == IF x.m < 0 THEN Neg(x) ELSE x

Sign(x) == ISign(x.m)

\* hi + lo for finite non-zero numbers with hi.k - lo.k = d >= 0.
AddAligned(hi, lo, d) ==
  IF d > MantBits + 2 THEN hi ELSE RoundSigned(hi.m * Pow2(d) + lo.m, lo.k)

\* x + y
Add(x, y) ==
  IF IsNaN(x) \/ IsNaN(y) THEN NaN
  ELSE IF IsInf(x) /\ IsInf(y) THEN (IF x.m = y.m THEN x ELSE NaN)
  ELSE IF IsInf(x) THEN x
  ELSE IF IsInf(y) THEN y
  ELSE IF x.m = 0 THEN y
  ELSE IF y.m = 0 THEN x
  ELSE IF x.k >= y.k THEN AddAligned(x, y, x.k - y.k)
  ELSE AddAligned(y, x, y.k - x.k)

Sub(x, y) == Add(x, Neg(y))

\* x * y
Mul(x, y) ==
  IF IsNaN(x) \/ IsNaN(y) THEN NaN
  ELSE IF IsInf(x) \/ IsInf(y)
       THEN (IF x.m = 0 \/ y.m = 0 THEN NaN ELSE Inf(Sign(x) * Sign(y)))
  ELSE IF x.m = 0 \/ y.m = 0 THEN Zero
  ELSE RoundTo(Sign(x) * Sign(y), IAbs(x.m) * IAbs(y.m), x.k + y.k, FALSE)

\* nx / ny * 2^k, rounded once.
DivScaled(s, nx, ny, k) == RoundTo(s, nx \div ny, k, nx % ny # 0)

\* x / y for finite non-zero numbers: both significands are shifted to
\* full width (by ux and uy), the dividend by MantBits + 2 more.
DivNorm(x, y, ux, uy) ==
  DivScaled(Sign(x) * Sign(y), IAbs(x.m) * Pow2(ux + MantBits + 2),
            IAbs(y.m) * Pow2(uy), (x.k - ux - MantBits - 2) - (y.k - uy))

\* x / y
Div(x, y) ==
  IF IsNaN(x) \/ IsNaN(y) THEN NaN
  ELSE IF IsInf(x) THEN (IF IsInf(y) THEN NaN
                         ELSE Inf(Sign(x) * (IF Sign(y) < 0 THEN 0 - 1 ELSE 1)))
  ELSE IF IsInf(y) THEN Zero
  ELSE IF y.m = 0 THEN (IF x.m = 0 THEN NaN ELSE Inf(Sign(x)))
  ELSE IF x.m = 0 THEN Zero
  ELSE DivNorm(x, y, MantBits - Bits(IAbs(x.m)), MantBits - Bits(IAbs(y.m)))

\* x < y, x <= y, x = y as the C comparison operators decide them.
Lt(x, y) ==
  IF IsNaN(x) \/ IsNaN(y) THEN FALSE
  ELSE IF IsInf(x) /\ IsInf(y) THEN x.m < y.m
  ELSE Sign(Sub(x, y)) < 0

Eq(x, y) == ~IsNaN(x) /\ ~IsNaN(y) /\ x = y

Le(x, y) == Lt(x, y) \/ Eq(x, y)

\* (int)x for a finite x of small magnitude: truncation toward zero.
Trunc(x) ==
  IF x.k >= 0 THEN x.m * Pow2(x.k)
  ELSE IF 0 - x.k >= MantBits THEN 0
  ELSE Sign(x) * (IAbs(x.m) \div Pow2(0 - x.k))

One == FromInt(1)

\* vplanet.c: const double dHUGE = DBL_MAX;
dHUGE == [m |-> Pow2(MantBits) - 1, k |-> KMax]

\* vplanet.c: const double dTINY = 1./DBL_MAX;
dTINY == Div(One, dHUGE)

Frac(a, b) == Div(FromInt(a), FromInt(b))

\* F(e), with e evaluated once: the model's form of a C local variable.
With(e, F(_)) == CHOOSE r \in {F(x) : x \in {e}} : TRUE

(***************************************************************************)
(* atmesc.c.  Units are chosen with BIGG = KBOLTZ = ATOMMASS = 1; QOH is   *)
(* the oxygen-to-hydrogen mass ratio.  PI is the double nearest to pi.     *)
(* Results of code outside these files are inputs carried by the body:     *)
(* dInstellation (fdInstellation), dHZRG14 (the value fdHZRG14 computes    *)
(* from the star), dBDiff (4.8e19 * pow(dFlowTemp, 0.75)), dRadLopez and   *)
(* dRadSotin (fdLopezRadius, fdMassToRad_Sotin07), bXiAboveOne (the        *)
(* comparison xi > 1 of the Roche-lobe ratio).                             *)
(***************************************************************************)
BIGG == One

KBOLTZ == One

ATOMMASS == One

QOH == 16

PI == Frac(201, 64)

\* Verbosity levels of the IO struct, in increasing order.
VERBINPUT == 3

VERBPROG == 2

\* The mixing ratio from the numbers of O2 and H2O molecules.
MixingRatio(NO2, NH2O) ==
  IF Lt(Zero, NH2O)
  THEN Div(One, Add(One, Div(One, Add(Frac(1, 2), Div(NO2, NH2O)))))
  ELSE IF Lt(Zero, NO2) THEN One ELSE Zero

\* double fdAtomicOxygenMixingRatio(double dSurfaceWaterMass, double dOxygenMass)
fdAtomicOxygenMixingRatio(dSurfaceWaterMass, dOxygenMass) ==
  MixingRatio(Div(dOxygenMass, Mul(FromInt(32), ATOMMASS)),
              Div(dSurfaceWaterMass, Mul(FromInt(18), ATOMMASS)))

fdInstellation(b) == b.dInstellation

fdHZRG14(b) == b.dHZRG14

\* A predicate without the Jeans-time test.
fbDoesWaterEscapeNoJeans(b) ==
  [ret  |-> ~Lt(Zero, b.dEnvelopeMass) /\ ~Lt(b.dInstellation, b.dHZRG14)
            /\ ~Le(b.dSurfaceWaterMass, Zero),
   body |-> b]

\* A predicate whose Jeans test passes until twice the Jeans time.
fbDoesWaterEscapeLateJeans(b) ==
  IF Lt(Zero, b.dEnvelopeMass)
  THEN [ret  |-> FALSE,
        body |-> IF Eq(b.dRGDuration, Zero) /\ Lt(b.dInstellation, b.dHZRG14)
                 THEN [b EXCEPT !.dRGDuration = b.dAge] ELSE b]
  ELSE IF Lt(b.dInstellation, b.dHZRG14)
  THEN [ret  |-> FALSE,
        body |-> IF Eq(b.dRGDuration, Zero)
                 THEN [b EXCEPT !.dRGDuration = b.dAge] ELSE b]
  ELSE IF Le(b.dSurfaceWaterMass, Zero) THEN [ret |-> FALSE, body |-> b]
  ELSE IF Lt(Mul(FromInt(2), b.dJeansTime), b.dAge) THEN [ret |-> FALSE, body |-> b]
  ELSE [ret |-> TRUE, body |-> b]

\* int fbDoesWaterEscape(BODY *body, int iBody): the answer, and the body
\* with dRGDuration as the call leaves it.
fbDoesWaterEscape(b) ==
  IF Lt(Zero, b.dEnvelopeMass)
  THEN [ret  |-> FALSE,
        body |-> IF Eq(b.dRGDuration, Zero) /\ Lt(fdInstellation(b), fdHZRG14(b))
                 THEN [b EXCEPT !.dRGDuration = b.dAge] ELSE b]
  ELSE IF Lt(fdInstellation(b), fdHZRG14(b))
  THEN [ret  |-> FALSE,
        body |-> IF Eq(b.dRGDuration, Zero)
                 THEN [b EXCEPT !.dRGDuration = b.dAge] ELSE b]
  ELSE IF Le(b.dSurfaceWaterMass, Zero) THEN [ret |-> FALSE, body |-> b]
  ELSE IF Lt(b.dJeansTime, b.dAge) THEN [ret |-> FALSE, body |-> b]
  ELSE [ret |-> TRUE, body |-> b]

\* 4 * ATOMMASS * PI * dRadius * dRadius * dXFrac * dXFrac
EscapeArea(b) ==
  Mul(Mul(Mul(Mul(Mul(Mul(FromInt(4), ATOMMASS), PI), b.dRadius), b.dRadius),
          b.dXFrac), b.dXFrac)

\* The Luger and Barnes (2015) branch of fnPropsAuxAtmEsc.
PropsLB15(b, g) ==
  With(Div(Mul(Mul(KBOLTZ, b.dFlowTemp), b.dFHRef),
           Mul(Mul(Mul(FromInt(10), b.dBDiff), g), ATOMMASS)),
       LAMBDA x :
         IF Lt(x, One)
         THEN [b EXCEPT !.dOxygenEta = Zero,
                        !.dCrossoverMass =
                            Add(ATOMMASS,
                                Div(Mul(Mul(Mul(Frac(3, 2), KBOLTZ), b.dFlowTemp),
                                        b.dFHRef),
                                    Mul(b.dBDiff, g)))]
         ELSE [b EXCEPT !.dOxygenEta = Div(Sub(x, One), Add(x, FromInt(8))),
                        !.dCrossoverMass =
                            Add(Mul(Div(FromInt(43), FromInt(3)), ATOMMASS),
                                Div(Mul(Mul(KBOLTZ, b.dFlowTemp), b.dFHRef),
                                    Mul(Mul(FromInt(6), b.dBDiff), g)))])

\* (dCrossoverMass / ATOMMASS - QOH) / (dCrossoverMass / ATOMMASS - 1.)
CrossoverRatio(mc) ==
  Div(Sub(Div(mc, ATOMMASS), FromInt(QOH)), Sub(Div(mc, ATOMMASS), One))

\* The crossover mass of the exact branch when mcross >= mo.
CrossoverExact(b, g, XO) ==
  Add(Div(Mul(ATOMMASS,
              Add(One, Mul(Mul(Div(XO, Sub(One, XO)), FromInt(QOH)), FromInt(QOH)))),
          Add(One, Mul(Div(XO, Sub(One, XO)), FromInt(QOH)))),
      Div(Mul(Mul(KBOLTZ, b.dFlowTemp), b.dFHRef),
          Mul(Mul(Add(One, Mul(XO, Sub(FromInt(QOH), One))), b.dBDiff), g)))

\* The exact (LBEXACT) and Tian branch of fnPropsAuxAtmEsc.
PropsLBExact(b, g, XO) ==
  IF Lt(b.dFHRef,
        Div(Mul(Mul(Sub(FromInt(QOH), One), Sub(One, XO)),
                Mul(Mul(b.dBDiff, g), ATOMMASS)),
            Mul(KBOLTZ, b.dFlowTemp)))
  THEN [b EXCEPT !.dCrossoverMass =
                     Add(ATOMMASS,
                         Div(Mul(Div(One, Sub(One, XO)),
                                 Mul(Mul(KBOLTZ, b.dFlowTemp), b.dFHRef)),
                             Mul(b.dBDiff, g))),
                 !.dOxygenEta = Zero]
  ELSE With(CrossoverExact(b, g, XO),
            LAMBDA mc :
              [b EXCEPT !.dCrossoverMass = mc,
                        !.dOxygenEta = Mul(Div(Mul(FromInt(2), XO), Sub(One, XO)),
                                           CrossoverRatio(mc))])

\* 1 - 3 / (2 * xi) + 1 / (2 * pow(xi, 3)) at xi = 2.
KTideEnhancement == Frac(5, 16)

\* A pass that keeps the enhancement computed for xi > 1.
PropsAuxKTideEnhanced(b, dAge, iVerbose) ==
  IF b.bBinary /\ b.iBodyType = 0
  THEN [b EXCEPT !.dAge = dAge, !.dKTide = One]
  ELSE IF b.bXiAboveOne
  THEN [b EXCEPT !.dAge = dAge, !.dKTide = KTideEnhancement]
  ELSE [b EXCEPT !.dAge = dAge, !.dKTide = One]

\* fnPropsAuxAtmEsc, lines 947-975: the age and the tidal enhancement.
\* nRocheMessages counts the warnings printed by calls on this body record.
PropsAuxKTide(b, dAge, iVerbose) ==
  IF b.bBinary /\ b.iBodyType = 0
  THEN [b EXCEPT !.dAge = dAge, !.dKTide = One]
  ELSE IF ~b.bXiAboveOne /\ ~b.bRocheMessage /\ iVerbose >= VERBINPUT
  THEN [b EXCEPT !.dAge = dAge, !.dKTide = One, !.bRocheMessage = TRUE,
                 !.nRocheMessages = @ + 1]
  ELSE [b EXCEPT !.dAge = dAge, !.dKTide = One]

\* double g = (BIGG * dMass) / (dRadius * dRadius)
GravAccel(b) == Div(Mul(BIGG, b.dMass), Mul(b.dRadius, b.dRadius))

\* fnPropsAuxAtmEsc, lines 986-998: the reference and diffusion-limited
\* hydrogen fluxes.
PropsAuxFluxes(b, XO) ==
  [b EXCEPT
     !.dFHRef =
        Div(Mul(Mul(b.dAtmXAbsEffH2O, b.dFXUV), b.dRadius),
            Mul(Mul(Mul(Mul(FromInt(4), BIGG), b.dMass), b.dKTide), ATOMMASS)),
     !.dFHDiffLim =
        Div(Mul(Mul(Mul(b.dBDiff, GravAccel(b)), ATOMMASS), Sub(FromInt(QOH), One)),
            Mul(Mul(KBOLTZ, b.dFlowTemp), Add(One, Div(XO, Sub(One, XO)))))]

\* A regime assignment that is always energy-limited.
PropsAuxRegimeEnergyLimited(b, XO) ==
  [b EXCEPT !.iWaterEscapeRegime = "ELIM",
            !.dMDotWater = Mul(b.dFHRef, EscapeArea(b))]

\* fnPropsAuxAtmEsc, lines 1055-1066: the escape regime and the water
\* mass-loss rate.
PropsAuxRegime(b, XO) ==
  IF Lt(Frac(6, 10), XO) /\ b.iWaterLossModel = "LBEXACT"
  THEN [b EXCEPT !.iWaterEscapeRegime = "DIFFLIM", !.dOxygenEta = Zero,
                 !.dMDotWater = Mul(b.dFHDiffLim, EscapeArea(b))]
  ELSE [b EXCEPT !.iWaterEscapeRegime = "ELIM",
                 !.dMDotWater = Mul(b.dFHRef, EscapeArea(b))]

\* fnPropsAuxAtmEsc, lines 1000-1067: is water escaping, and how.
PropsAuxEscape(b, escapes, XO) ==
  IF ~escapes
  THEN [b EXCEPT !.dOxygenEta = Zero, !.dCrossoverMass = Zero,
                 !.bRunaway = FALSE, !.iWaterEscapeRegime = "NONE",
                 !.dMDotWater = Zero]
  ELSE With(IF b.iWaterLossModel = "LB15"
            THEN PropsLB15([b EXCEPT !.bRunaway = TRUE], GravAccel(b))
            ELSE IF b.iWaterLossModel \in {"LBEXACT", "TIAN"}
                 THEN PropsLBExact([b EXCEPT !.bRunaway = TRUE], GravAccel(b), XO)
                 ELSE [b EXCEPT !.bRunaway = TRUE],
            LAMBDA c : PropsAuxRegime(c, XO))

\* void fnPropsAuxAtmEsc(BODY *body, EVOLVE *evolve, IO *io, UPDATE *update,
\* int iBody), for the radius models other than LEHMER17, with bCalcFXUV
\* unset and a constant H2O absorption efficiency.
fnPropsAuxAtmEsc(body, iVerbose, iBody) ==
  With(PropsAuxKTide(body[iBody], body[1].dAge, iVerbose),
       LAMBDA b1 :
  With(fdAtomicOxygenMixingRatio(b1.dSurfaceWaterMass, b1.dOxygenMass),
       LAMBDA XO :
  With(PropsAuxFluxes(b1, XO),
       LAMBDA b3 :
  With(fbDoesWaterEscape(b3),
       LAMBDA esc :
         [body EXCEPT ![iBody] = PropsAuxEscape(esc.body, esc.ret, XO)]))))

\* (8 - 8 * dOxygenEta) / (1 + 8 * dOxygenEta) * dMDotWater
OxygenRate(b) ==
  Mul(Div(Sub(FromInt(8), Mul(FromInt(8), b.dOxygenEta)),
          Add(One, Mul(FromInt(8), b.dOxygenEta))), b.dMDotWater)

\* (320. * PI * BIGG * ATOMMASS * ATOMMASS * BDIFF * dMass) / (KBOLTZ * dFlowTemp)
OxygenRateLB15(b) ==
  Div(Mul(Mul(Mul(Mul(Mul(Mul(FromInt(320), PI), BIGG), ATOMMASS), ATOMMASS),
              b.dBDiff), b.dMass),
      Mul(KBOLTZ, b.dFlowTemp))

\* double fdDSurfaceWaterMassDt(BODY *body, SYSTEM *system, int *iaBody)
fdDSurfaceWaterMassDt(b) ==
  IF b.bRunaway /\ Lt(Zero, b.dSurfaceWaterMass)
  THEN Mul(Neg(Div(FromInt(9), Add(One, Mul(FromInt(8), b.dOxygenEta)))),
           b.dMDotWater)
  ELSE Zero

\* double fdDOxygenMassDt(BODY *body, SYSTEM *system, int *iaBody)
fdDOxygenMassDt(b) ==
  IF b.bRunaway /\ ~b.bInstantO2Sink /\ Lt(Zero, b.dSurfaceWaterMass)
  THEN IF b.iWaterLossModel = "LB15"
            /\ Le(Mul(FromInt(16), ATOMMASS), b.dCrossoverMass)
       THEN OxygenRateLB15(b) ELSE OxygenRate(b)
  ELSE Zero

\* double fdDOxygenMantleMassDt(BODY *body, SYSTEM *system, int *iaBody)
fdDOxygenMantleMassDt(b) ==
  IF b.bRunaway /\ b.bInstantO2Sink /\ Lt(Zero, b.dSurfaceWaterMass)
  THEN IF b.iWaterLossModel = "LB15"
            /\ Le(Mul(FromInt(16), ATOMMASS), b.dCrossoverMass)
       THEN OxygenRateLB15(b) ELSE OxygenRate(b)
  ELSE Zero

\* An envelope rate of the opposite sign: the envelope gains what it loses.
EnvelopeMassGain(b) ==
  Mul(Mul(b.dFHRef, Div(b.dAtmXAbsEffH, b.dAtmXAbsEffH2O)), EscapeArea(b))

\* double fdDEnvelopeMassDt(BODY *body, SYSTEM *system, int *iaBody), for the
\* radius models other than LEHMER17.
fdDEnvelopeMassDt(b) ==
  IF Le(b.dEnvelopeMass, Zero) \/ Lt(b.dJeansTime, b.dAge)
  THEN dTINY
  ELSE Mul(Mul(Neg(b.dFHRef), Div(b.dAtmXAbsEffH, b.dAtmXAbsEffH2O)),
           EscapeArea(b))

fdMassToRad_Sotin07(b) == b.dRadSotin

fdLopezRadius(b) == b.dRadLopez

\* double fdPlanetRadius(BODY *body, SYSTEM *system, int *iaBody)
fdPlanetRadius(b) ==
  IF b.iPlanetRadiusModel = "LOP12"
  THEN With(IF Le(b.dEnvelopeMass, b.dMinEnvelopeMass)
            THEN fdMassToRad_Sotin07(b) ELSE fdLopezRadius(b),
            LAMBDA foo : IF ~IsNaN(foo) THEN foo ELSE b.dRadius)
  ELSE b.dRadius

\* double fndUpdateFunctionTiny(BODY *body, SYSTEM *system, int *iaBody)
fndUpdateFunctionTiny(b) == dTINY

(***************************************************************************)
(* stellar.c.  The tabulated tracks (fdBaraffe) are outside these files:   *)
(* the grid here covers the ages GridLo to GridHi, and the track of the    *)
(* mass HoleMass has NaN entries from the age HoleAge on.  Two fields of a *)
(* body are not program variables: bExit, exit() has been called from a    *)
(* function working on the body, and iaError, the error codes fdBaraffe    *)
(* has returned to lookups made for the body.                              *)
(***************************************************************************)
GridLo == FromInt(6)

GridHi == FromInt(9)

HoleMass == FromInt(512)

HoleAge == Frac(17, 2)

\* 10.0 * YEARDAY * DAYSEC, in the units of the grid.
Eps == Frac(1, 4)

ALPHA_STRUCT == Frac(6, 10)

\* fdBaraffe(iParam, dAge, dMass, 3, &iError): the value returned and *iError.
fdBaraffe(iParam, dAge, dMass) ==
  [iError |-> IF Lt(dAge, GridLo) THEN "OUTOFBOUNDS_LO"
              ELSE IF Lt(GridHi, dAge) THEN "OUTOFBOUNDS_HI"
              ELSE IF dMass = HoleMass /\ Le(HoleAge, dAge) THEN "ISNAN"
              ELSE "NONE",
   val    |-> CASE iParam = "L"  -> Mul(FromInt(2), dAge)
                [] iParam = "R"  -> Sub(FromInt(16), dAge)
                [] iParam = "RG" -> Div(dAge, FromInt(16))
                [] iParam = "T"  -> Add(FromInt(32), dAge)]

\* Lookup functions for which a NaN entry of the grid is as fatal as an age
\* below it.
BaraffeFunctionNaNFatal(iParam, dAge, dMass) ==
  With(fdBaraffe(iParam, dAge, dMass),
       LAMBDA r :
         IF r.iError \in {"NONE", "LINEAR"}
         THEN [exit |-> FALSE, ret |-> r.val, iError |-> r.iError]
         ELSE IF r.iError = "OUTOFBOUNDS_HI"
         THEN [exit |-> FALSE, ret |-> NaN, iError |-> r.iError]
         ELSE [exit |-> TRUE, ret |-> NaN, iError |-> r.iError])

\* The body of the four fd<X>FunctionBaraffe functions: the value returned,
\* whether exit(EXIT_INT) is called instead, and the error code met.
BaraffeFunction(iParam, dAge, dMass) ==
  With(fdBaraffe(iParam, dAge, dMass),
       LAMBDA r :
         IF r.iError \in {"NONE", "LINEAR"}
         THEN [exit |-> FALSE, ret |-> r.val, iError |-> r.iError]
         ELSE IF r.iError \in {"OUTOFBOUNDS_HI", "ISNAN"}
         THEN [exit |-> FALSE, ret |-> NaN, iError |-> r.iError]
         ELSE [exit |-> TRUE, ret |-> NaN, iError |-> r.iError])

\* double fdLuminosityFunctionBaraffe(double dAge, double dMass)
fdLuminosityFunctionBaraffe(dAge, dMass) == BaraffeFunction("L", dAge, dMass)

\* double fdRadiusFunctionBaraffe(double dAge, double dMass)
fdRadiusFunctionBaraffe(dAge, dMass) == BaraffeFunction("R", dAge, dMass)

\* double fdRadGyraFunctionBaraffe(double dAge, double dMass)
fdRadGyraFunctionBaraffe(dAge, dMass) == BaraffeFunction("RG", dAge, dMass)

\* double fdTemperatureFunctionBaraffe(double dAge, double dMass)
fdTemperatureFunctionBaraffe(dAge, dMass) == BaraffeFunction("T", dAge, dMass)

\* The body after a lookup made for it has returned r; nothing is recorded
\* once exit() has been called.
Looked(b, r) ==
  IF b.bExit THEN b
  ELSE [b EXCEPT !.bExit = r.exit, !.iaError = @ \cup {r.iError}]

\* The shape fdLuminosity, fdRadius, fdTemperature and fdRadGyra share, r
\* being what the Baraffe function returned for the body's age and mass:
\* the value returned and the body as the call leaves it.  The Proxima Cen
\* model is not modelled.
TrackValue(b, r, field) ==
  IF b.iStellarModel = "BARAFFE"
  THEN IF ~IsNaN(r.ret)
       THEN [body |-> Looked(b, r), ret |-> r.ret]
       ELSE [body |-> [Looked(b, r) EXCEPT !.iStellarModel = "CONST"],
             ret  |-> b[field]]
  ELSE IF b.iStellarModel \in {"NONE", "CONST"}
  THEN [body |-> b, ret |-> b[field]]
  ELSE [body |-> b, ret |-> Zero]

\* A lookup that answers 0 when the grid gives NaN, and no longer the value
\* the body holds.
fdLuminosityForgetful(b) ==
  With(TrackValue(b, fdLuminosityFunctionBaraffe(b.dAge, b.dMass), "dLuminosity"),
       LAMBDA r : IF r.body.iStellarModel = "CONST"
                  THEN [body |-> r.body, ret |-> Zero] ELSE r)

\* double fdLuminosity(BODY *body, SYSTEM *system, int *iaBody)
fdLuminosity(b) ==
  TrackValue(b, fdLuminosityFunctionBaraffe(b.dAge, b.dMass), "dLuminosity")

\* double fdRadius(BODY *body, SYSTEM *system, int *iaBody)
fdRadius(b) ==
  TrackValue(b, fdRadiusFunctionBaraffe(b.dAge, b.dMass), "dRadius")

\* double fdTemperature(BODY *body, SYSTEM *system, int *iaBody)
fdTemperature(b) ==
  TrackValue(b, fdTemperatureFunctionBaraffe(b.dAge, b.dMass), "dTemperature")

\* double fdRadGyra(BODY *body, SYSTEM *system, int *iaBody)
fdRadGyra(b) ==
  IF ~b.bEvolveRG THEN [body |-> b, ret |-> b.dRadGyra]
  ELSE TrackValue(b, fdRadGyraFunctionBaraffe(b.dAge, b.dMass), "dRadGyra")

\* (dPlus - dMinus) / (2. * eps) with the body the two lookups leave.
CenteredDifference(b, minus, plus) ==
  [body |-> Looked(Looked(b, minus), plus),
   ret  |-> Div(Sub(plus.ret, minus.ret), Mul(FromInt(2), Eps))]

\* double fdDRadiusDtStellar(BODY *body, SYSTEM *system, int *iaBody)
fdDRadiusDtStellar(b) ==
  IF b.iStellarModel # "BARAFFE" THEN [body |-> b, ret |-> dTINY]
  ELSE CenteredDifference(b, fdRadiusFunctionBaraffe(Sub(b.dAge, Eps), b.dMass),
                          fdRadiusFunctionBaraffe(Add(b.dAge, Eps), b.dMass))

\* double fdDRadGyraDtStellar(BODY *body, SYSTEM *system, int *iaBody)
fdDRadGyraDtStellar(b) ==
  IF b.iStellarModel # "BARAFFE" \/ ~b.bEvolveRG THEN [body |-> b, ret |-> dTINY]
  ELSE CenteredDifference(b, fdRadGyraFunctionBaraffe(Sub(b.dAge, Eps), b.dMass),
                          fdRadGyraFunctionBaraffe(Add(b.dAge, Eps), b.dMass))

\* double fdDJDtMagBrakingStellar(BODY *body, SYSTEM *system, int *iaBody),
\* for a body without bRossbyCut whose braking model is STELLAR_DJDT_NONE.
fdDJDtMagBrakingStellar(b) == dTINY

\* -2.0 * dDxDt * dRotRate / x
SpinUp(b, dDxDt, x) == Div(Mul(Mul(FromInt(0 - 2), dDxDt), b.dRotRate), x)

\* double fdDRotRateDtRadGyra(BODY *body, SYSTEM *system, int *iaBody)
fdDRotRateDtRadGyra(b) ==
  IF b.iStellarModel # "BARAFFE" THEN [body |-> b, ret |-> dTINY]
  ELSE With(fdDRadGyraDtStellar(b),
            LAMBDA d : [body |-> d.body, ret |-> SpinUp(b, d.ret, b.dRadGyra)])

\* double fdDRotRateDtCon(BODY *body, SYSTEM *system, int *iaBody)
fdDRotRateDtCon(b) ==
  IF b.iStellarModel # "BARAFFE" THEN [body |-> b, ret |-> dTINY]
  ELSE With(fdDRadiusDtStellar(b),
            LAMBDA d : [body |-> d.body, ret |-> SpinUp(b, d.ret, b.dRadius)])

\* double fdDRotRateDtMagBrake(BODY *body, SYSTEM *system, int *iaBody)
fdDRotRateDtMagBrake(b) ==
  [body |-> b,
   ret  |-> Div(Neg(fdDJDtMagBrakingStellar(b)),
                Mul(Mul(Mul(Mul(b.dMass, b.dRadGyra), b.dRadGyra), b.dRadius),
                    b.dRadius))]

\* double fdDRotRateDt(BODY *body, SYSTEM *system, int *iaBody)
fdDRotRateDt(b) ==
  With(fdDRotRateDtCon(b),
       LAMBDA c :
  With(fdDRotRateDtMagBrake(c.body),
       LAMBDA m :
  With(fdDRotRateDtRadGyra(m.body),
       LAMBDA g : [body |-> g.body, ret |-> Add(Add(c.ret, m.ret), g.ret)])))

\* double fdDEDtRotBrakeStellar(BODY *body, SYSTEM *system, int *iaBody)
fdDEDtRotBrakeStellar(b) ==
  [body |-> b, ret |-> Neg(Mul(b.dRotRate, Neg(fdDJDtMagBrakingStellar(b))))]

\* double fdDEDtRotConStellar(BODY *body, SYSTEM *system, int *iaBody)
fdDEDtRotConStellar(b) ==
  With(fdDRadiusDtStellar(b),
       LAMBDA d :
         [body |-> d.body,
          ret  |-> Neg(Mul(Mul(Mul(Mul(Mul(Mul(Neg(b.dMass), b.dRadGyra),
                                           b.dRadGyra), b.dRadius), d.ret),
                               b.dRotRate), b.dRotRate))])

\* double fdDEDtPotConStellar(BODY *body, SYSTEM *system, int *iaBody)
fdDEDtPotConStellar(b) ==
  With(fdDRadiusDtStellar(b),
       LAMBDA d :
         [body |-> d.body,
          ret  |-> Neg(Div(Mul(Mul(Mul(Mul(ALPHA_STRUCT, BIGG), b.dMass), b.dMass),
                               d.ret),
                           Mul(b.dRadius, b.dRadius)))])

\* double fdDEDtRotRadGyraStellar(BODY *body, SYSTEM *system, int *iaBody)
fdDEDtRotRadGyraStellar(b) ==
  With(fdDRadGyraDtStellar(b),
       LAMBDA d :
         [body |-> d.body,
          ret  |-> Neg(Mul(Mul(Mul(Mul(Mul(Mul(Neg(b.dMass), b.dRadGyra),
                                           b.dRadius), b.dRadius), d.ret),
                               b.dRotRate), b.dRotRate))])

\* double fdDEDtStellar(BODY *body, SYSTEM *system, int *iaBody)
fdDEDtStellar(b) ==
  With(fdDEDtRotBrakeStellar(b),
       LAMBDA k :
  With(fdDEDtRotConStellar(k.body),
       LAMBDA c :
  With(fdDEDtPotConStellar(c.body),
       LAMBDA p :
  With(fdDEDtRotRadGyraStellar(p.body),
       LAMBDA g :
         [body |-> g.body,
          ret  |-> Add(Add(Add(k.ret, c.ret), p.ret), g.ret)]))))

\* void fnPropsAuxStellar(BODY *body, EVOLVE *evolve, IO *io, UPDATE *update,
\* int iBody), for a constant XUV fraction.
fnPropsAuxStellar(body, iBody) ==
  [body EXCEPT
     ![iBody].dRotPer = Div(Mul(FromInt(2), PI), body[iBody].dRotRate),
     ![iBody].dLXUV = Mul(body[iBody].dSatXUVFrac, body[iBody].dLuminosity)]

\* int fbHaltEndBaraffeGrid(...)
fbHaltEndBaraffeGrid(b) == b.iStellarModel = "CONST"

\* An entry of the fnUpdate matrix: the contributor's name; c is the value
\* a drawn contributor ("fnDrawn") returns.
Fn(name) == [fn |-> name, c |-> Zero]

\* The contributors of stellar.c, which can change the body they work on.
StellarFns ==
  {"fdLuminosity", "fdRadius", "fdTemperature", "fdRadGyra", "fdDRotRateDt",
   "fdDJDtMagBrakingStellar", "fdDEDtStellar"}

fnStellar(name, b) ==
  CASE name = "fdLuminosity"            -> fdLuminosity(b)
    [] name = "fdRadius"                -> fdRadius(b)
    [] name = "fdTemperature"           -> fdTemperature(b)
    [] name = "fdRadGyra"               -> fdRadGyra(b)
    [] name = "fdDRotRateDt"            -> fdDRotRateDt(b)
    [] name = "fdDJDtMagBrakingStellar" -> [body |-> b, ret |-> fdDJDtMagBrakingStellar(b)]
    [] name = "fdDEDtStellar"           -> fdDEDtStellar(b)

\* fnUpdate[iBody][iVar][iEqn](body, system, iaBody): the value returned and
\* the body array as the call leaves it.
fnCall(eq, body, iBody) ==
  IF eq.fn \in StellarFns
  THEN With(fnStellar(eq.fn, body[iBody]),
            LAMBDA r : [body |-> [body EXCEPT ![iBody] = r.body], ret |-> r.ret])
  ELSE
  [body |-> body,
   ret  |-> CASE eq.fn = "fdDSurfaceWaterMassDt" -> fdDSurfaceWaterMassDt(body[iBody])
              [] eq.fn = "fdDOxygenMassDt"       -> fdDOxygenMassDt(body[iBody])
              [] eq.fn = "fdDOxygenMantleMassDt" -> fdDOxygenMantleMassDt(body[iBody])
              [] eq.fn = "fdDEnvelopeMassDt"     -> fdDEnvelopeMassDt(body[iBody])
              [] eq.fn = "fdPlanetRadius"        -> fdPlanetRadius(body[iBody])
              [] eq.fn = "fndUpdateFunctionTiny" -> fndUpdateFunctionTiny(body[iBody])
              [] OTHER                           -> eq.c]

\* The envelope half of fnForceBehaviorAtmEsc, for a body whose envelope is
\* at or below its floor and positive.
EnvelopeLost(b, iVerbose) ==
  IF b.iPlanetRadiusModel = "LOP12"
  THEN IF iVerbose >= VERBPROG /\ ~b.bEnvelopeLostMessage
       THEN [b EXCEPT !.dEnvelopeMass = Zero, !.bEnvelopeLostMessage = TRUE,
                      !.nEnvelopeLostMessages = @ + 1,
                      !.dRadius = fdMassToRad_Sotin07(b)]
       ELSE [b EXCEPT !.dEnvelopeMass = Zero, !.dRadius = fdMassToRad_Sotin07(b)]
  ELSE [b EXCEPT !.dEnvelopeMass = Zero]

\* A water clamp that stops at the floor instead of zero.
DesiccateToFloor(b) ==
  IF Le(b.dSurfaceWaterMass, b.dMinSurfaceWaterMass) /\ Lt(Zero, b.dSurfaceWaterMass)
  THEN [b EXCEPT !.dSurfaceWaterMass = b.dMinSurfaceWaterMass] ELSE b

\* The water half of fnForceBehaviorAtmEsc.
Desiccate(b) ==
  IF Le(b.dSurfaceWaterMass, b.dMinSurfaceWaterMass) /\ Lt(Zero, b.dSurfaceWaterMass)
  THEN [b EXCEPT !.dSurfaceWaterMass = Zero] ELSE b

\* void fnForceBehaviorAtmEsc(...): the body array and the fnUpdate matrix as
\* the hook leaves them.  iEnv is update[iBody].iEnvelopeMass.
fnForceBehaviorAtmEsc(body, fnUpdate, iVerbose, iBody, iEnv) ==
  With(Desiccate(body[iBody]),
       LAMBDA b1 :
         IF Le(b1.dEnvelopeMass, b1.dMinEnvelopeMass) /\ Lt(Zero, b1.dEnvelopeMass)
         THEN [body     |-> [body EXCEPT ![iBody] = EnvelopeLost(b1, iVerbose)],
               fnUpdate |-> [fnUpdate EXCEPT
                               ![iBody][iEnv][1] = Fn("fndUpdateFunctionTiny")]]
         ELSE [body     |-> [body EXCEPT ![iBody] = b1],
               fnUpdate |-> fnUpdate])

\* int fbHaltSurfaceDesiccated(...)
fbHaltSurfaceDesiccated(b) == Le(b.dSurfaceWaterMass, b.dMinSurfaceWaterMass)

\* int fbHaltEnvelopeGone(...)
fbHaltEnvelopeGone(b) == Le(b.dEnvelopeMass, b.dMinEnvelopeMass)

(***************************************************************************)
(* evolve.c.  Bodies are numbered from 1; body[1] is the central body.     *)
(* update[iBody][iVar] is [pdVar, iaType, daDerivProc]: the name of the    *)
(* body field the variable lives in, the kind tag of each equation and the *)
(* last value each contributor returned.  The kinds modelled are 0         *)
(* (value), 1 (rate), 5 (derived rate) and 10 (explicit).                  *)
(***************************************************************************)

\* A selector that scales dMin by dEta and never looks at the output gap.
AssignDtUncapped(dMin, dNextOutput, dEta) == Mul(dEta, dMin)

\* double AssignDt(double dMin, double dNextOutput, double dEta)
AssignDt(dMin, dNextOutput, dEta) ==
  With(Mul(dEta, dMin),
       LAMBDA m : IF Lt(dNextOutput, m) THEN dNextOutput ELSE m)

\* double fdNextOutput(double dTime, double dOutputInterval)
fdNextOutput(dTime, dOutputInterval) ==
  Mul(Add(FromInt(Trunc(Div(dTime, dOutputInterval))), One), dOutputInterval)

\* bFloatComparison(x, 0.0)
bFloatComparison(x, y) == Eq(x, y)

\* control->fnPropsAux[iBody][iModule](body, evolve, io, update, iBody)
fnPropsAux(name, body, iVerbose, iBody) ==
  IF name = "atmesc" THEN fnPropsAuxAtmEsc(body, iVerbose, iBody)
  ELSE IF name = "stellar" THEN fnPropsAuxStellar(body, iBody)
  ELSE body

\* void PropertiesAuxiliary(BODY *body, CONTROL *control, UPDATE *update)
RECURSIVE PropertiesAuxiliaryFrom(_, _, _, _, _)
PropertiesAuxiliaryFrom(body, module, iVerbose, iBody, iModule) ==
  IF iBody > Len(body) THEN body
  ELSE IF iModule > Len(module[iBody])
       THEN PropertiesAuxiliaryFrom(body, module, iVerbose, iBody + 1, 1)
       ELSE With(fnPropsAux(module[iBody][iModule], body, iVerbose, iBody),
                 LAMBDA b :
                   PropertiesAuxiliaryFrom(b, module, iVerbose, iBody, iModule + 1))

PropertiesAuxiliary(body, module, iVerbose) ==
  PropertiesAuxiliaryFrom(body, module, iVerbose, 1, 1)

\* The (iBody, iVar) pairs in the order the loops of evolve.c visit them.
RECURSIVE VarPositions(_, _, _)
VarPositions(update, iBody, iVar) ==
  IF iBody > Len(update) THEN <<>>
  ELSE IF iVar > Len(update[iBody]) THEN VarPositions(update, iBody + 1, 1)
       ELSE <<(<<iBody, iVar>>)>> \o VarPositions(update, iBody, iVar + 1)

\* for (iEqn...) daDerivProc[iVar][iEqn] = fnUpdate[iBody][iVar][iEqn](...)
RECURSIVE EvalEqns(_, _, _, _, _)
EvalEqns(fns, body, iBody, iEqn, d) ==
  IF iEqn > Len(fns) THEN [body |-> body, d |-> d]
  ELSE With(fnCall(fns[iEqn], body, iBody),
            LAMBDA r : EvalEqns(fns, r.body, iBody, iEqn + 1, Append(d, r.ret)))

\* acc = 0; for (iEqn...) acc += iDir * d[iEqn]
RECURSIVE SumDir(_, _, _, _)
SumDir(d, iDir, iEqn, acc) ==
  IF iEqn > Len(d) THEN acc
  ELSE SumDir(d, iDir, iEqn + 1, Add(acc, Mul(FromInt(iDir), d[iEqn])))

\* void fdGetUpdateInfo(...)
RECURSIVE fdGetUpdateInfoFrom(_, _, _, _)
fdGetUpdateInfoFrom(ps, body, update, fnUpdate) ==
  IF ps = <<>> THEN [body |-> body, update |-> update]
  ELSE With(EvalEqns(fnUpdate[Head(ps)[1]][Head(ps)[2]], body, Head(ps)[1], 1, <<>>),
            LAMBDA r :
              fdGetUpdateInfoFrom(
                Tail(ps), r.body,
                [update EXCEPT ![Head(ps)[1]][Head(ps)[2]].daDerivProc = r.d],
                fnUpdate))

fdGetUpdateInfo(body, update, fnUpdate) ==
  fdGetUpdateInfoFrom(VarPositions(update, 1, 1), body, update, fnUpdate)

\* The timescale of a value-kind variable (iaType 0) that fdGetTimeStep
\* compares with dMin, or dHUGE where it compares nothing.
TauValue(dVarNow, dVarTotal, dTimeStep) ==
  IF ~Eq(dVarNow, dVarTotal)
  THEN Abs(Div(dVarNow, Div(Sub(dVarNow, dVarTotal), dTimeStep)))
  ELSE dHUGE

\* The timescale of one equation of a rate-kind variable.
TauRate(x, deriv) ==
  IF ~bFloatComparison(deriv, Zero) /\ ~bFloatComparison(x, Zero)
  THEN Abs(Div(x, deriv))
  ELSE dHUGE

FMin(a, b) == IF Lt(a, b) THEN a ELSE b

\* The per-equation branch of fdGetTimeStep for a rate-kind variable.
RECURSIVE TimeStepRate(_, _, _, _, _, _, _)
TimeStepRate(fns, body, iBody, x, iEqn, d, dMin) ==
  IF iEqn > Len(fns) THEN [body |-> body, d |-> d, dMin |-> dMin]
  ELSE With(fnCall(fns[iEqn], body, iBody),
            LAMBDA r :
              With(FMin(TauRate(x, r.ret), dMin),
                   LAMBDA m :
                     TimeStepRate(fns, r.body, iBody, x, iEqn + 1,
                                  Append(d, r.ret), m)))

\* The value-kind branch (iaType 0) of fdGetTimeStep.
TimeStepValue(acc, iB, iV, x, dTimeStep, fnUpdate) ==
  With(EvalEqns(fnUpdate[iB][iV], acc.body, iB, 1, <<>>),
       LAMBDA r :
         [body       |-> r.body,
          update     |-> [acc.update EXCEPT ![iB][iV].daDerivProc = r.d],
          dMin       |-> IF acc.bFirstStep THEN dTimeStep
                         ELSE FMin(TauValue(x, SumDir(r.d, 1, 1, Zero), dTimeStep),
                                   acc.dMin),
          bFirstStep |-> FALSE])

\* One variable of fdGetTimeStep's loop.  acc is [body, update, dMin,
\* bFirstStep]; vals is the body array update's pdVar pointers aim at.
TimeStepVar(acc, iB, iV, vals, evolve, io, fnUpdate) ==
  IF acc.update[iB][iV].iaType[1] = 0
  THEN TimeStepValue(acc, iB, iV, vals[iB][acc.update[iB][iV].pdVar],
                     evolve.dTimeStep, fnUpdate)
  ELSE IF acc.update[iB][iV].iaType[1] = 5
  THEN With(EvalEqns(fnUpdate[iB][iV], acc.body, iB, 1, <<>>),
            LAMBDA r : [acc EXCEPT !.body = r.body,
                                   !.update[iB][iV].daDerivProc = r.d])
  ELSE IF acc.update[iB][iV].iaType[1] = 10
  THEN [acc EXCEPT !.dMin = FMin(fdNextOutput(evolve.dTime, io.dOutputTime),
                                 acc.dMin)]
  ELSE With(TimeStepRate(fnUpdate[iB][iV], acc.body, iB,
                         vals[iB][acc.update[iB][iV].pdVar], 1, <<>>, acc.dMin),
            LAMBDA r : [acc EXCEPT !.body = r.body,
                                   !.update[iB][iV].daDerivProc = r.d,
                                   !.dMin = r.dMin])

RECURSIVE fdGetTimeStepFrom(_, _, _, _, _, _)
fdGetTimeStepFrom(ps, acc, vals, evolve, io, fnUpdate) ==
  IF ps = <<>> THEN acc
  ELSE With(TimeStepVar(acc, Head(ps)[1], Head(ps)[2], vals, evolve, io, fnUpdate),
            LAMBDA a : fdGetTimeStepFrom(Tail(ps), a, vals, evolve, io, fnUpdate))

\* double fdGetTimeStep(BODY *body, CONTROL *control, SYSTEM *system,
\* UPDATE *update, fnUpdateVariable ***fnUpdate): the value returned (dMin)
\* with the body array, the update array and control->Evolve.bFirstStep as
\* the call leaves them.
fdGetTimeStep(body, vals, evolve, io, update, fnUpdate) ==
  fdGetTimeStepFrom(VarPositions(update, 1, 1),
                    [body |-> body, update |-> update, dMin |-> dHUGE,
                     bFirstStep |-> evolve.bFirstStep],
                    vals, evolve, io, fnUpdate)

\* Fields of BODY that BodyCopy (body.c) copies for every body.
GeneralFields ==
  {"dAge", "dMass", "dRadius", "bBinary", "iBodyType", "bXiAboveOne",
   "dInstellation", "dHZRG14", "dBDiff", "dRadLopez", "dRadSotin",
   "dRadGyra", "dRotRate", "dLostAngMom", "dLostEng"}

\* A body copy of the module that leaves the Roche flag of the scratch body
\* alone.
AtmEscFieldsNoRoche ==
  {"dSurfaceWaterMass", "dOxygenMass", "dOxygenMantleMass", "dEnvelopeMass",
   "dXFrac", "dAtmXAbsEffH", "dAtmXAbsEffH2O", "dMinSurfaceWaterMass",
   "dMinEnvelopeMass", "iWaterLossModel", "iAtmXAbsEffH2OModel", "dKTide",
   "dMDotWater", "dFHRef", "dOxygenEta", "dCrossoverMass", "bRunaway",
   "iWaterEscapeRegime", "dFHDiffLim", "iPlanetRadiusModel", "bInstantO2Sink",
   "dRGDuration", "dFlowTemp", "dFXUV", "bCalcFXUV", "dJeansTime"}

\* void BodyCopyAtmEsc(BODY *dest, BODY *src, int foo, int iNumBodies, int iBody)
AtmEscFields ==
  {"dSurfaceWaterMass", "dOxygenMass", "dOxygenMantleMass", "dEnvelopeMass",
   "dXFrac", "dAtmXAbsEffH", "dAtmXAbsEffH2O", "dMinSurfaceWaterMass",
   "dMinEnvelopeMass", "iWaterLossModel", "iAtmXAbsEffH2OModel", "dKTide",
   "dMDotWater", "dFHRef", "dOxygenEta", "dCrossoverMass", "bRunaway",
   "iWaterEscapeRegime", "dFHDiffLim", "iPlanetRadiusModel", "bInstantO2Sink",
   "dRGDuration", "dFlowTemp", "dFXUV", "bCalcFXUV", "dJeansTime",
   "bRocheMessage"}

\* void BodyCopyStellar(BODY *dest, BODY *src, int foo, int iNumBodies, int iBody)
StellarFields ==
  {"dLuminosity", "dTemperature", "dSatXUVFrac", "dSatXUVTime", "dXUVBeta",
   "iStellarModel", "iWindModel", "iXUVModel", "iMagBrakingModel", "dLXUV",
   "bRossbyCut", "bEvolveRG"}

\* The fields the body-copy function of a module copies.
ModuleFields(name) ==
  IF name = "atmesc" THEN AtmEscFields
  ELSE IF name = "stellar" THEN StellarFields
  ELSE IF name = "generic" THEN {"dVarA", "dVarB"}
  ELSE {}

\* The fields BodyCopy copies for a body with the modules mods.
CopiedFields(mods) ==
  GeneralFields \cup UNION {ModuleFields(mods[i]) : i \in DOMAIN mods}

\* void BodyCopy(BODY *dest, BODY *src, EVOLVE *evolve)
BodyCopy(dest, src, module) ==
  [iB \in DOMAIN dest |->
     [f \in DOMAIN dest[iB] |->
        IF f \in CopiedFields(module[iB]) THEN src[iB][f] ELSE dest[iB][f]]]

\* iaType 0, 3 and 10: the contributors' sum is the variable's new value.
IsValueKind(v) == v.iaType[1] \in {0, 3, 10}

\* evolve->daDeriv[k][iBody][iVar] for every variable.
DerivSums(tmpUpdate, iDir) ==
  [iB \in DOMAIN tmpUpdate |->
     [iV \in DOMAIN tmpUpdate[iB] |->
        SumDir(tmpUpdate[iB][iV].daDerivProc, iDir, 1, Zero)]]

\* *(tmpUpdate[iBody].pdVar[iVar]) = ... for the variables of one body: the
\* sum itself for a value kind, else the real value moved by h * sum.
RECURSIVE MoveVars(_, _, _, _, _, _)
MoveVars(tb, b, upd, d, h, iVar) ==
  IF iVar > Len(upd) THEN tb
  ELSE With([tb EXCEPT ![upd[iVar].pdVar] =
                          IF IsValueKind(upd[iVar]) THEN d[iVar]
                          ELSE Add(b[upd[iVar].pdVar], Mul(h, d[iVar]))],
            LAMBDA t : MoveVars(t, b, upd, d, h, iVar + 1))

MoveBodies(tmpBody, body, update, d, h) ==
  [iB \in DOMAIN tmpBody |->
     MoveVars(tmpBody[iB], body[iB], update[iB], d[iB], h, 1)]

\* A weighting that keeps the derivative at the start of the step only.
WeightedDerivEuler(d0, d1, d2, d3) == d0

\* update[iBody].daDeriv[iVar] = 1./6*(d0 + 2*d1 + 2*d2 + d3)
WeightedDeriv(d0, d1, d2, d3) ==
  Mul(Frac(1, 6),
      Add(Add(Add(d0, Mul(FromInt(2), d1)), Mul(FromInt(2), d2)), d3))

\* The write-back loop of RungeKutta4Step for the variables of one body.
RECURSIVE WriteBack(_, _, _, _, _, _, _, _)
WriteBack(b, upd, d0, d1, d2, d3, dDt, iVar) ==
  IF iVar > Len(upd) THEN b
  ELSE With([b EXCEPT ![upd[iVar].pdVar] =
                         IF IsValueKind(upd[iVar]) THEN d0[iVar]
                         ELSE Add(b[upd[iVar].pdVar],
                                  Mul(WeightedDeriv(d0[iVar], d1[iVar], d2[iVar],
                                                    d3[iVar]), dDt))],
            LAMBDA w : WriteBack(w, upd, d0, d1, d2, d3, dDt, iVar + 1))

\* The timestep RungeKutta4Step and Evolve choose from fdGetTimeStep's dMin.
ChooseDt(dMin, evolve, io) ==
  IF evolve.bVarDt
  THEN AssignDt(dMin,
                Sub(fdNextOutput(evolve.dTime, io.dOutputTime), evolve.dTime),
                evolve.dEta)
  ELSE evolve.dTimeStep

\* One of the three trial stages of RungeKutta4Step: the scratch bodies are
\* moved by h times the sums d, the auxiliary pass and fdGetUpdateInfo run on
\* them.  The result is [body, update, moved]: the scratch bodies and
\* tmpUpdate after the stage, and the scratch bodies as the derivative pass
\* found them.
RK4Stage(tb, real, update, tmpUpdate, fnUpdate, module, iVerbose, d, h) ==
  With(PropertiesAuxiliary(MoveBodies(tb, real, update, d, h), module, iVerbose),
       LAMBDA moved :
         With(fdGetUpdateInfo(moved, tmpUpdate, fnUpdate),
              LAMBDA r : [body |-> r.body, update |-> r.update, moved |-> moved]))

\* void RungeKutta4Step(BODY *body, CONTROL *control, SYSTEM *system,
\* UPDATE *update, fnUpdateVariable ***fnUpdate, double *dDt, int iDir):
\* the real bodies, the scratch bodies, the scratch update array, the
\* first-step flag and *dDt as the step leaves them, with the value dMin
\* that fdGetTimeStep returned, evolve->daDeriv (d) and the scratch bodies
\* each trial derivative pass started from (moved).
RungeKutta4Step(body, tmpBody, update, tmpUpdate, fnUpdate, evolve, io, module, iDir) ==
  With(BodyCopy(tmpBody, body, module),
       LAMBDA tb0 :
  With(fdGetTimeStep(body, tb0, evolve, io, tmpUpdate, fnUpdate),
       LAMBDA ts :
  With(ChooseDt(ts.dMin, evolve, io),
       LAMBDA dDt :
  With(DerivSums(ts.update, iDir),
       LAMBDA d0 :
  With(RK4Stage(tb0, ts.body, update, ts.update, fnUpdate, module, io.iVerbose,
                d0, Mul(Frac(1, 2), dDt)),
       LAMBDA i1 :
  With(DerivSums(i1.update, iDir),
       LAMBDA d1 :
  With(RK4Stage(i1.body, ts.body, update, i1.update, fnUpdate, module, io.iVerbose,
                d1, Mul(Frac(1, 2), dDt)),
       LAMBDA i2 :
  With(DerivSums(i2.update, iDir),
       LAMBDA d2 :
  With(RK4Stage(i2.body, ts.body, update, i2.update, fnUpdate, module, io.iVerbose,
                d2, dDt),
       LAMBDA i3 :
  With(DerivSums(i3.update, iDir),
       LAMBDA d3 :
         [body       |-> [iB \in DOMAIN body |->
                            WriteBack(ts.body[iB], update[iB], d0[iB], d1[iB],
                                      d2[iB], d3[iB], dDt, 1)],
          tmpBody    |-> i3.body,
          tmpUpdate  |-> i3.update,
          bFirstStep |-> ts.bFirstStep,
          dDt        |-> dDt,
          dMin       |-> ts.dMin,
          d          |-> <<d0, d1, d2, d3>>,
          moved      |-> <<i1.moved, i2.moved, i3.moved>>]))))))))))

\* int fbCheckHalt(BODY *body, CONTROL *control, UPDATE *update): true when
\* a halt registered for some body answers yes.
fbCheckHalt(body, halt) ==
  \E iB \in DOMAIN body :
     \/ halt[iB].bSurfaceDesiccated /\ fbHaltSurfaceDesiccated(body[iB])
     \/ halt[iB].bEnvelopeGone /\ fbHaltEnvelopeGone(body[iB])
     \/ halt[iB].bEndBaraffeGrid /\ fbHaltEndBaraffeGrid(body[iB])

\* update[iBody].iEnvelopeMass: the position of the envelope-mass variable.
VarIndex(upd, field) ==
  IF \E i \in DOMAIN upd : upd[i].pdVar = field
  THEN CHOOSE i \in DOMAIN upd : upd[i].pdVar = field
  ELSE 0

\* control->fnForceBehavior[iBody][iModule](...)
fnForceBehavior(name, body, fnUpdate, update, iVerbose, iBody) ==
  IF name = "atmesc"
  THEN fnForceBehaviorAtmEsc(body, fnUpdate, iVerbose, iBody,
                             VarIndex(update[iBody], "dEnvelopeMass"))
  ELSE [body |-> body, fnUpdate |-> fnUpdate]

\* The force-behaviour loop of Evolve over bodies and their modules.
RECURSIVE ForceBehaviorFrom(_, _, _, _, _, _, _)
ForceBehaviorFrom(body, fnUpdate, update, module, iVerbose, iBody, iModule) ==
  IF iBody > Len(body) THEN [body |-> body, fnUpdate |-> fnUpdate]
  ELSE IF iModule > Len(module[iBody])
       THEN ForceBehaviorFrom(body, fnUpdate, update, module, iVerbose, iBody + 1, 1)
       ELSE With(fnForceBehavior(module[iBody][iModule], body, fnUpdate, update,
                                 iVerbose, iBody),
                 LAMBDA r :
                   ForceBehaviorFrom(r.body, r.fnUpdate, update, module, iVerbose,
                                     iBody, iModule + 1))

\* WriteOutput(...): the snapshot appended to the output.
Snapshot(body, evolve, kind) ==
  [kind |-> kind, dTime |-> evolve.dTime, dAge |-> body[1].dAge,
   dSurfaceWaterMass |-> body[Len(body)].dSurfaceWaterMass,
   dEnvelopeMass |-> body[Len(body)].dEnvelopeMass]

(***************************************************************************)
(* The state of a run.                                                     *)
(***************************************************************************)
VARIABLES
  body,       \* BODY *body
  tmpBody,    \* control->Evolve.tmpBody
  update,     \* UPDATE *update
  tmpUpdate,  \* control->Evolve.tmpUpdate
  fnUpdate,   \* fnUpdateVariable ***fnUpdate
  module,     \* the modules of each body, in call order
  evolve,     \* control->Evolve
  io,         \* control->Io
  halt,       \* control->Halt
  loc,        \* the locals of Evolve: dDt, dTimeOut, nSteps, iDir
  out,        \* the snapshots WriteOutput has written
  pc,         \* where the program is
  hist        \* history kept for the properties; not a program variable

vars == <<body, tmpBody, update, tmpUpdate, fnUpdate, module, evolve, io, halt,
          loc, out, pc, hist>>

\* A body before any option is read.
BaseBody ==
  [dAge |-> Zero, dMass |-> One, dRadius |-> One, bBinary |-> FALSE,
   iBodyType |-> 0, bXiAboveOne |-> TRUE, dInstellation |-> Zero,
   dHZRG14 |-> Zero, dBDiff |-> Zero, dRadLopez |-> Zero, dRadSotin |-> Zero,
   dVarA |-> Zero, dVarB |-> Zero, dTemperature |-> Zero, dRadGyra |-> Zero,
   bEvolveRG |-> TRUE,
   dSurfaceWaterMass |-> Zero, dOxygenMass |-> Zero, dOxygenMantleMass |-> Zero,
   dEnvelopeMass |-> Zero, dXFrac |-> One, dAtmXAbsEffH |-> Zero,
   dAtmXAbsEffH2O |-> Zero, dMinSurfaceWaterMass |-> Zero,
   dMinEnvelopeMass |-> Zero, iWaterLossModel |-> "LB15",
   iAtmXAbsEffH2OModel |-> "NONE", dKTide |-> Zero, dMDotWater |-> Zero,
   dFHRef |-> Zero, dOxygenEta |-> Zero, dCrossoverMass |-> Zero,
   bRunaway |-> FALSE, iWaterEscapeRegime |-> "NONE", dFHDiffLim |-> Zero,
   iPlanetRadiusModel |-> "NONE", bInstantO2Sink |-> FALSE, dRGDuration |-> Zero,
   dFlowTemp |-> One, dFXUV |-> Zero, bCalcFXUV |-> FALSE, dJeansTime |-> Zero,
   bRocheMessage |-> FALSE, bEnvelopeLostMessage |-> FALSE,
   dLuminosity |-> Zero, dRotRate |-> One, dRotPer |-> Zero,
   dLostAngMom |-> Zero, dLostEng |-> Zero, dLXUV |-> Zero,
   dSatXUVFrac |-> Zero, dSatXUVTime |-> Zero, dXUVBeta |-> Zero,
   iStellarModel |-> "NONE", iWindModel |-> "NONE", iXUVModel |-> "NONE",
   iMagBrakingModel |-> "NONE", bRossbyCut |-> FALSE,
   bExit |-> FALSE, iaError |-> {},
   nRocheMessages |-> 0, nEnvelopeLostMessages |-> 0]

\* The age at which every run starts.
StartAge == FromInt(8)

\* The central body: a star that no module evolves.
Star == [BaseBody EXCEPT !.dAge = StartAge, !.dMass = FromInt(1024),
                         !.dRadius = FromInt(64)]

\* void VerifyRadiusAtmEsc(...): the radius the planet starts with.
VerifyRadiusAtmEsc(b) ==
  IF b.iPlanetRadiusModel = "LOP12"
  THEN IF Le(b.dEnvelopeMass, b.dMinEnvelopeMass)
       THEN [b EXCEPT !.dRadius = fdMassToRad_Sotin07(b)]
       ELSE [b EXCEPT !.dRadius = fdLopezRadius(b)]
  ELSE b

\* A planet as ReadOptions and VerifyAtmEsc leave it.
Planet(w, o, e, loss, rad, inst, jeans, sink) ==
  VerifyRadiusAtmEsc(
    [BaseBody EXCEPT !.dAge = StartAge, !.dMass = FromInt(8),
       !.dRadius = FromInt(2), !.dRadLopez = FromInt(2), !.dRadSotin = One,
       !.dInstellation = inst, !.dHZRG14 = FromInt(2), !.dBDiff = Frac(1, 512),
       !.dSurfaceWaterMass = w, !.dOxygenMass = o, !.dEnvelopeMass = e,
       !.dAtmXAbsEffH = Frac(1, 4), !.dAtmXAbsEffH2O = Frac(1, 4),
       !.dMinSurfaceWaterMass = FromInt(3), !.dMinEnvelopeMass = Frac(1, 2),
       !.iWaterLossModel = loss, !.iPlanetRadiusModel = rad,
       !.bInstantO2Sink = sink, !.dFXUV = FromInt(4), !.dJeansTime = jeans,
       !.bRocheMessage = FALSE, !.bEnvelopeLostMessage = FALSE,
       !.dRGDuration = Zero])

Planets ==
  { Planet(w, o, e, loss, rad, inst, jeans, sink) :
      w \in {Zero, FromInt(16)}, o \in {Zero, FromInt(32)},
      e \in {Zero, FromInt(2)}, loss \in {"LB15", "LBEXACT"},
      rad \in {"NONE", "LOP12"}, inst \in {One, FromInt(4)},
      jeans \in {FromInt(9), FromInt(1024)}, sink \in {FALSE} }

\* Planets on which nothing or only the water evolves.
QuietPlanets ==
  { Planet(w, Zero, Zero, "LB15", "NONE", FromInt(4), FromInt(1024), FALSE) :
      w \in {Zero, FromInt(16)} }

\* Planets inside their Roche lobe (xi <= 1), with and without an envelope
\* that the run removes.
RochePlanets ==
  { [Planet(FromInt(16), Zero, e, "LB15", rad, FromInt(4), FromInt(1024), FALSE)
       EXCEPT !.bXiAboveOne = FALSE] :
      e \in {Zero, FromInt(2)}, rad \in {"NONE", "LOP12"} }

\* Watery planets of a system whose age starts at zero, with a Jeans time
\* that the run reaches, inside and outside the runaway-greenhouse limit.
YoungPlanets ==
  { [Planet(FromInt(16), Zero, Zero, loss, "NONE", inst, One, FALSE)
       EXCEPT !.dAge = Zero, !.dFXUV = Frac(1, 4)] :
      loss \in {"LB15", "LBEXACT"}, inst \in {One, FromInt(4)} }

\* Planets whose floors are zero.
BarePlanets ==
  { [Planet(w, Zero, e, "LB15", "NONE", FromInt(4), FromInt(1024), FALSE)
       EXCEPT !.dMinSurfaceWaterMass = Zero, !.dMinEnvelopeMass = Zero] :
      w \in {Zero, FromInt(16)}, e \in {Zero, FromInt(2)} }

Var(field, kind, n) ==
  [pdVar |-> field, iaType |-> [i \in 1..n |-> kind],
   daDerivProc |-> [i \in 1..n |-> Zero]]

\* void InitializeUpdateAtmEsc(...) with the FinalizeUpdate*AtmEsc functions
\* and the kinds the Verify* functions of atmesc.c set: the variables the
\* module declares for a body.
UpdateAtmEsc(b) ==
  (IF Lt(Zero, b.dSurfaceWaterMass)
   THEN <<Var("dSurfaceWaterMass", 1, 1), Var("dOxygenMass", 1, 1),
          Var("dOxygenMantleMass", 1, 1)>>
   ELSE <<>>)
  \o (IF Lt(Zero, b.dEnvelopeMass)
      THEN <<Var("dEnvelopeMass", 1, 1), Var("dMass", 1, 1)>>
      ELSE <<>>)
  \o (IF Lt(Zero, b.dRadius) THEN <<Var("dRadius", 0, 1)>> ELSE <<>>)

\* void AssignAtmEscDerivatives(...): the callbacks at the slots of the
\* variables the module has declared (the writes for undeclared variables
\* are AssignSlotsAtmEsc).
AssignAtmEscDerivatives(b) ==
  (IF Lt(Zero, b.dSurfaceWaterMass)
   THEN << <<Fn("fdDSurfaceWaterMassDt")>>, <<Fn("fdDOxygenMassDt")>>,
           <<Fn("fdDOxygenMantleMassDt")>> >>
   ELSE <<>>)
  \o (IF Lt(Zero, b.dEnvelopeMass)
      THEN << <<Fn("fdDEnvelopeMassDt")>>, <<Fn("fdDEnvelopeMassDt")>> >>
      ELSE <<>>)
  \o (IF Lt(Zero, b.dRadius) THEN << <<Fn("fdPlanetRadius")>> >> ELSE <<>>)

\* void InitializeUpdateStellar(...) with the kinds the Verify* functions of
\* stellar.c set: the variables the module declares for a body.
UpdateStellar(b) ==
  <<Var("dLuminosity", 0, 1)>>
  \o (IF Lt(Zero, b.dRadius) THEN <<Var("dRadius", 0, 1)>> ELSE <<>>)
  \o (IF Lt(Zero, b.dRadGyra) /\ b.bEvolveRG THEN <<Var("dRadGyra", 0, 1)>> ELSE <<>>)
  \o <<Var("dRotRate", 1, 1), Var("dLostAngMom", 1, 1), Var("dLostEng", 5, 1)>>
  \o (IF Lt(Zero, b.dTemperature) THEN <<Var("dTemperature", 0, 1)>> ELSE <<>>)

\* void AssignStellarDerivatives(...): the callbacks at the slots of the
\* variables the module has declared (the writes for undeclared variables
\* are AssignSlotsStellar).
AssignStellarDerivatives(b) ==
  << <<Fn("fdLuminosity")>> >>
  \o (IF Lt(Zero, b.dRadius) THEN << <<Fn("fdRadius")>> >> ELSE <<>>)
  \o (IF Lt(Zero, b.dRadGyra) /\ b.bEvolveRG THEN << <<Fn("fdRadGyra")>> >> ELSE <<>>)
  \o << <<Fn("fdDRotRateDt")>>, <<Fn("fdDJDtMagBrakingStellar")>>,
        <<Fn("fdDEDtStellar")>> >>
  \o (IF Lt(Zero, b.dTemperature) THEN << <<Fn("fdTemperature")>> >> ELSE <<>>)

\* A star that follows the tracks, as ReadOptions leaves it.
StarOptions(age, mass, rg) ==
  [BaseBody EXCEPT !.dAge = age, !.dMass = mass, !.dRadius = FromInt(4),
     !.dRadGyra = Frac(1, 4), !.dTemperature = FromInt(64), !.dRotRate = One,
     !.dSatXUVFrac = Frac(1, 1024), !.iStellarModel = "BARAFFE",
     !.bEvolveRG = rg]

\* VerifyLuminosity, VerifyRadius, VerifyRadGyra and VerifyTemperature: the
\* values the star starts with.
VerifyStellarValues(b) ==
  IF b.iStellarModel # "BARAFFE" THEN b
  ELSE [b EXCEPT
          !.dLuminosity = fdLuminosityFunctionBaraffe(b.dAge, b.dMass).ret,
          !.dRadius = fdRadiusFunctionBaraffe(b.dAge, b.dMass).ret,
          !.dRadGyra = IF b.bEvolveRG
                       THEN fdRadGyraFunctionBaraffe(b.dAge, b.dMass).ret
                       ELSE @,
          !.dTemperature = fdTemperatureFunctionBaraffe(b.dAge, b.dMass).ret]

\* The stars a run starts with: in the grid or above it at the start, on a
\* complete track or on the one with the hole.
Stars ==
  [age : {FromInt(8), FromInt(10)}, mass : {FromInt(1024), HoleMass},
   rg : BOOLEAN]

NoHalt ==
  [bSurfaceDesiccated |-> FALSE, bEnvelopeGone |-> FALSE,
   bEndBaraffeGrid |-> FALSE]

\* The integration options a run is started with.
Engines ==
  [bVarDt : BOOLEAN, bDoForward : BOOLEAN, bHalts : BOOLEAN,
   dEta : {Frac(1, 2)}, dTimeStep : {Frac(1, 2)}, dStopTime : {FromInt(2)},
   dOutputTime : {One}]

\* Variable-step forward runs whose output interval is not a power of two.
CadenceEngines ==
  [bVarDt : {TRUE}, bDoForward : {TRUE}, bHalts : {FALSE},
   dEta : {Frac(1, 2)}, dTimeStep : {Frac(1, 2)}, dStopTime : {FromInt(4)},
   dOutputTime : {Frac(9, 10)}]

\* Forward runs whose stop time is not a multiple of the output interval or
\* of the fixed timestep.
OffsetEngines ==
  [bVarDt : BOOLEAN, bDoForward : {TRUE}, bHalts : {FALSE},
   dEta : {Frac(1, 2)}, dTimeStep : {Frac(1, 2)}, dStopTime : {Frac(5, 4)},
   dOutputTime : {One}]

\* control->Evolve as main() hands it to Evolve.
EvolveOf(en) ==
  [dTime |-> Zero, bFirstStep |-> TRUE, bVarDt |-> en.bVarDt,
   bDoForward |-> en.bDoForward, dEta |-> en.dEta, dTimeStep |-> en.dTimeStep,
   dStopTime |-> en.dStopTime, dCurrentDt |-> Zero, nSteps |-> 0]

\* What the history starts as: no loop iteration entered, nothing desiccated.
NoHistory ==
  [entered |-> FALSE, head |-> <<>>, bDesiccated |-> FALSE, dMin |-> Zero,
   dGap |-> Zero, d |-> <<>>, moved |-> <<>>]

\* The state in which main() calls Evolve for an atmesc planet.
InitPlanet(p, en) ==
  /\ body = <<Star, p>>
  /\ tmpBody = <<Star, p>>
  /\ update = << <<>>, UpdateAtmEsc(p) >>
  /\ tmpUpdate = << <<>>, UpdateAtmEsc(p) >>
  /\ fnUpdate = << <<>>, AssignAtmEscDerivatives(p) >>
  /\ module = << <<>>, <<"atmesc">> >>
  /\ evolve = EvolveOf(en)
  /\ io = [dOutputTime |-> en.dOutputTime, iVerbose |-> VERBINPUT]
  /\ halt = <<NoHalt, [NoHalt EXCEPT !.bSurfaceDesiccated = en.bHalts,
                                     !.bEnvelopeGone = en.bHalts]>>
  /\ loc = [dDt |-> Zero, dTimeOut |-> Zero, nSteps |-> 0, iDir |-> 1]
  /\ out = <<>>
  /\ pc = "main"
  /\ hist = NoHistory

\* The state in which main() calls Evolve for a planet of a system of age 0.
InitYoung(p, en) ==
  /\ body = <<[Star EXCEPT !.dAge = Zero], p>>
  /\ tmpBody = body
  /\ update = << <<>>, UpdateAtmEsc(p) >>
  /\ tmpUpdate = update
  /\ fnUpdate = << <<>>, AssignAtmEscDerivatives(p) >>
  /\ module = << <<>>, <<"atmesc">> >>
  /\ evolve = EvolveOf(en)
  /\ io = [dOutputTime |-> en.dOutputTime, iVerbose |-> VERBINPUT]
  /\ halt = <<NoHalt, NoHalt>>
  /\ loc = [dDt |-> Zero, dTimeOut |-> Zero, nSteps |-> 0, iDir |-> 1]
  /\ out = <<>>
  /\ pc = "main"
  /\ hist = NoHistory

\* A body with one variable of a module other than atmesc: the variable
\* dVarA starts at x, has the kind given and a contributor returning c; a
\* rate variable can have a second contributor, returning c2 (c2 = 0: none).
Generics ==
  { g \in [x : {Zero, FromInt(4)}, kind : {0, 1, 5, 10}, c : {One, Neg(One)},
           c2 : {Zero, Neg(One), FromInt(2)}] :
      g.c2 # Zero => g.kind \in {1, 5} }

\* The contributors of such a body's variable.
GenericFns(g) ==
  IF g.c2 = Zero THEN <<[fn |-> "fnDrawn", c |-> g.c]>>
  ELSE <<[fn |-> "fnDrawn", c |-> g.c], [fn |-> "fnDrawn", c |-> g.c2]>>

GenericEngines ==
  [bVarDt : BOOLEAN, bDoForward : BOOLEAN, bHalts : {FALSE},
   dEta : {Frac(1, 2)}, dTimeStep : {Frac(1, 2)}, dStopTime : {FromInt(2)},
   dOutputTime : {One}]

\* The state in which main() calls Evolve for such a body.
InitGeneric(g, en) ==
  /\ body = <<Star, [BaseBody EXCEPT !.dAge = StartAge, !.dVarA = g.x]>>
  /\ tmpBody = body
  /\ update = << <<>>, <<Var("dVarA", g.kind, Len(GenericFns(g)))>> >>
  /\ tmpUpdate = update
  /\ fnUpdate = << <<>>, <<GenericFns(g)>> >>
  /\ module = << <<>>, <<"generic">> >>
  /\ evolve = EvolveOf(en)
  /\ io = [dOutputTime |-> en.dOutputTime, iVerbose |-> VERBINPUT]
  /\ halt = <<NoHalt, NoHalt>>
  /\ loc = [dDt |-> Zero, dTimeOut |-> Zero, nSteps |-> 0, iDir |-> 1]
  /\ out = <<>>
  /\ pc = "main"
  /\ hist = NoHistory

\* Runs of a star: long enough to leave the grid.
StellarEngines ==
  [bVarDt : BOOLEAN, bDoForward : BOOLEAN, bHalts : BOOLEAN,
   dEta : {Frac(1, 2)}, dTimeStep : {Frac(1, 2)}, dStopTime : {FromInt(3)},
   dOutputTime : {One}]

\* The state in which main() calls Evolve for a star of the stellar module.
InitStar(s, en) ==
  /\ body = <<VerifyStellarValues(StarOptions(s.age, s.mass, s.rg))>>
  /\ tmpBody = body
  /\ update = <<UpdateStellar(StarOptions(s.age, s.mass, s.rg))>>
  /\ tmpUpdate = update
  /\ fnUpdate = <<AssignStellarDerivatives(StarOptions(s.age, s.mass, s.rg))>>
  /\ module = << <<"stellar">> >>
  /\ evolve = EvolveOf(en)
  /\ io = [dOutputTime |-> en.dOutputTime, iVerbose |-> VERBINPUT]
  /\ halt = <<[NoHalt EXCEPT !.bEndBaraffeGrid = en.bHalts]>>
  /\ loc = [dDt |-> Zero, dTimeOut |-> Zero, nSteps |-> 0, iDir |-> 1]
  /\ out = <<>>
  /\ pc = "main"
  /\ hist = NoHistory

(***************************************************************************)
(* Evolve (evolve.c), one action per stretch of the function.              *)
(***************************************************************************)

\* The most integration steps a run of the model takes.
MaxSteps == 12

StepsTaken == evolve.nSteps + loc.nSteps

\* What one iteration of the main loop starts from.
LoopHead ==
  [body |-> body, tmpBody |-> tmpBody, update |-> update,
   tmpUpdate |-> tmpUpdate, fnUpdate |-> fnUpdate, dTime |-> evolve.dTime,
   bFirstStep |-> evolve.bFirstStep, dTimeOut |-> loc.dTimeOut]

\* exit() has been called during a lookup for one of the bodies.
Exited(bodies) == \E iB \in DOMAIN bodies : bodies[iB].bExit

\* Evolve, from its entry to the head of the main loop: the first auxiliary
\* pass, the first call of fdGetTimeStep, the initial snapshot, UpdateCopy.
EvolveEnter ==
  /\ pc = "main"
  /\ \E b1 \in {PropertiesAuxiliary(body, module, io.iVerbose)} :
     \E ts \in {fdGetTimeStep(b1, b1, evolve, io, update, fnUpdate)} :
     \E ev \in {[evolve EXCEPT !.nSteps = 0, !.bFirstStep = ts.bFirstStep]} :
        /\ body' = ts.body
        /\ update' = ts.update
        /\ tmpUpdate' = ts.update
        /\ evolve' = ev
        /\ loc' = [dDt |-> ChooseDt(ts.dMin, evolve, io),
                   dTimeOut |-> fdNextOutput(evolve.dTime, io.dOutputTime),
                   nSteps |-> 0,
                   iDir |-> IF evolve.bDoForward THEN 1 ELSE 0 - 1]
        /\ out' = IF Exited(ts.body) THEN out
                  ELSE Append(out, Snapshot(ts.body, ev, "initial"))
        /\ pc' = IF Exited(ts.body) THEN "exit" ELSE "loop"
  /\ UNCHANGED <<tmpBody, fnUpdate, module, io, halt, hist>>

\* while (control->Evolve.dTime < control->Evolve.dStopTime): enter the body.
LoopEnter ==
  /\ pc = "loop"
  /\ Lt(evolve.dTime, evolve.dStopTime)
  /\ StepsTaken < MaxSteps
  /\ pc' = "step"
  /\ hist' = [hist EXCEPT !.entered = TRUE, !.head = LoopHead]
  /\ UNCHANGED <<body, tmpBody, update, tmpUpdate, fnUpdate, module, evolve, io,
                 halt, loc, out>>

\* The loop condition fails: Evolve returns after the last line.
LoopExit ==
  /\ pc = "loop"
  /\ ~Lt(evolve.dTime, evolve.dStopTime)
  /\ pc' = "done"
  /\ UNCHANGED <<body, tmpBody, update, tmpUpdate, fnUpdate, module, evolve, io,
                 halt, loc, out, hist>>

\* fnOneStep(body, control, system, update, fnUpdate, &dDt, iDir)
OneStep ==
  /\ pc = "step"
  /\ \E r \in {RungeKutta4Step(body, tmpBody, update, tmpUpdate, fnUpdate, evolve,
                               io, module, loc.iDir)} :
        /\ body' = r.body
        /\ tmpBody' = r.tmpBody
        /\ tmpUpdate' = r.tmpUpdate
        /\ evolve' = [evolve EXCEPT !.bFirstStep = r.bFirstStep,
                                    !.dCurrentDt = r.dDt]
        /\ loc' = [loc EXCEPT !.dDt = r.dDt]
        /\ hist' = [hist EXCEPT
                      !.dMin = r.dMin,
                      !.d = r.d,
                      !.moved = r.moved,
                      !.dGap = Sub(fdNextOutput(evolve.dTime, io.dOutputTime),
                                   evolve.dTime)]
        /\ pc' = IF Exited(r.body) \/ Exited(r.tmpBody) THEN "exit" ELSE "force"
  /\ UNCHANGED <<update, fnUpdate, module, io, halt, out>>

\* The force-behaviour hooks of every body and module.
ForceBehavior ==
  /\ pc = "force"
  /\ \E r \in {ForceBehaviorFrom(body, fnUpdate, update, module, io.iVerbose, 1, 1)} :
        /\ body' = r.body
        /\ fnUpdate' = r.fnUpdate
  /\ hist' = [hist EXCEPT
                !.bDesiccated =
                   \/ hist.bDesiccated
                   \/ \E iB \in DOMAIN body :
                         /\ "atmesc" \in {module[iB][i] : i \in DOMAIN module[iB]}
                         /\ Le(body[iB].dSurfaceWaterMass,
                               body[iB].dMinSurfaceWaterMass)
                         /\ Lt(Zero, body[iB].dSurfaceWaterMass)]
  /\ pc' = "halt"
  /\ UNCHANGED <<tmpBody, update, tmpUpdate, module, evolve, io, halt, loc, out>>

\* A driver that returns on a halt without writing the terminal snapshot.
CheckHaltSilent ==
  /\ pc = "halt"
  /\ \E i1 \in {fdGetUpdateInfo(body, update, fnUpdate)} :
        /\ body' = i1.body
        /\ update' = i1.update
        /\ out' = out
        /\ pc' = IF Exited(i1.body) THEN "exit"
                 ELSE IF fbCheckHalt(i1.body, halt) THEN "halted" ELSE "advance"
  /\ UNCHANGED <<tmpBody, tmpUpdate, fnUpdate, module, evolve, io, halt, loc, hist>>

\* fdGetUpdateInfo, then the halt check; a halt takes one more derivative
\* pass, writes the terminal snapshot and returns.
CheckHalt ==
  /\ pc = "halt"
  /\ \E i1 \in {fdGetUpdateInfo(body, update, fnUpdate)} :
        IF Exited(i1.body)
        THEN /\ body' = i1.body
             /\ update' = i1.update
             /\ out' = out
             /\ pc' = "exit"
        ELSE IF fbCheckHalt(i1.body, halt)
        THEN \E i2 \in {fdGetUpdateInfo(i1.body, i1.update, fnUpdate)} :
                /\ body' = i2.body
                /\ update' = i2.update
                /\ out' = Append(out, Snapshot(i2.body, evolve, "halt"))
                /\ pc' = "halted"
        ELSE /\ body' = i1.body
             /\ update' = i1.update
             /\ out' = out
             /\ pc' = "advance"
  /\ UNCHANGED <<tmpBody, tmpUpdate, fnUpdate, module, evolve, io, halt, loc, hist>>

\* body[iBody].dAge += iDir * dDt for every body.
AgeBodies(bodies, iDir, dDt) ==
  [iB \in DOMAIN bodies |->
     [bodies[iB] EXCEPT !.dAge = Add(bodies[iB].dAge, Mul(FromInt(iDir), dDt))]]

\* The rest of the loop body: ages and time advance, the cadence snapshot,
\* the auxiliary pass for the next step, the first-step flag.
Advance ==
  /\ pc = "advance"
  /\ \E aged \in {AgeBodies(body, loc.iDir, loc.dDt)} :
     \E t1 \in {Add(evolve.dTime, loc.dDt)} :
     \E due \in {Le(loc.dTimeOut, t1)} :
        /\ out' = IF due
                  THEN Append(out, Snapshot(aged, [evolve EXCEPT !.dTime = t1],
                                            "cadence"))
                  ELSE out
        /\ loc' = [loc EXCEPT !.nSteps = IF due THEN 0 ELSE loc.nSteps + 1,
                              !.dTimeOut = IF due
                                           THEN fdNextOutput(t1, io.dOutputTime)
                                           ELSE loc.dTimeOut]
        /\ body' = PropertiesAuxiliary(aged, module, io.iVerbose)
        /\ evolve' = [evolve EXCEPT
                        !.dTime = t1,
                        !.nSteps = IF due THEN evolve.nSteps + loc.nSteps + 1
                                   ELSE evolve.nSteps,
                        !.bFirstStep = FALSE]
  /\ pc' = "loop"
  /\ UNCHANGED <<tmpBody, update, tmpUpdate, fnUpdate, module, io, halt, hist>>

Init ==
  \/ \E p \in Planets, en \in Engines : InitPlanet(p, en)
  \/ \E p \in QuietPlanets, en \in CadenceEngines : InitPlanet(p, en)
  \/ \E p \in QuietPlanets, en \in OffsetEngines : InitPlanet(p, en)
  \/ \E p \in BarePlanets, en \in Engines : InitPlanet(p, en)
  \/ \E p \in RochePlanets, en \in Engines : InitPlanet(p, en)
  \/ \E p \in YoungPlanets, en \in {e \in Engines : e.bDoForward /\ ~e.bHalts} :
        InitYoung(p, en)
  \/ \E g \in Generics, en \in GenericEngines : InitGeneric(g, en)
  \/ \E s \in Stars, en \in StellarEngines : InitStar(s, en)

Next ==
  \/ EvolveEnter
  \/ LoopEnter
  \/ LoopExit
  \/ OneStep
  \/ ForceBehavior
  \/ CheckHalt
  \/ Advance

Spec == Init /\ [][Next]_vars

(***************************************************************************)
(* Properties of the integration loop, checked under Spec.                 *)
(***************************************************************************)

\* The hook of the current iteration has run.
AfterHook == pc \in {"halt", "advance", "loop", "halted"} /\ hist.entered

C2_DtPositive == pc = "force" => Lt(Zero, evolve.dCurrentDt)

\* C3, a consequence of the statement: an iteration of the main loop that
\* ends short of the stop time does not end in the state it started from
\* (the run is deterministic, so such an iteration repeats for ever).
C3_LoopProgress ==
  ~(/\ pc = "loop" /\ hist.entered
    /\ Lt(evolve.dTime, evolve.dStopTime)
    /\ hist.head = LoopHead)

\* A halt registered for some body answers yes on the bodies as they are.
HaltAnswersYes ==
  \E iB \in DOMAIN body :
     \/ /\ halt[iB].bSurfaceDesiccated
        /\ Le(body[iB].dSurfaceWaterMass, body[iB].dMinSurfaceWaterMass)
     \/ /\ halt[iB].bEnvelopeGone
        /\ Le(body[iB].dEnvelopeMass, body[iB].dMinEnvelopeMass)
     \/ /\ halt[iB].bEndBaraffeGrid
        /\ body[iB].iStellarModel = "CONST"

TerminalSnapshots(o) == Cardinality({i \in DOMAIN o : o[i].kind = "halt"})

\* C4: after the step and its hook, a halt that answers yes makes the driver
\* recompute the derivatives of the bodies the step left, append exactly one
\* terminal snapshot of them and return, with every matrix variable and the
\* time as the step left them; a halt check that answers no writes nothing
\* and goes on; nothing is done after the return.
C4_HaltHandling ==
  [][/\ pc = "halt" /\ HaltAnswersYes =>
           /\ pc' = "halted"
           /\ out' = Append(out, Snapshot(body', evolve, "halt"))
           /\ TerminalSnapshots(out') = 1
           /\ \A iB \in DOMAIN body : \A iV \in DOMAIN update[iB] :
                 body'[iB][update[iB][iV].pdVar] = body[iB][update[iB][iV].pdVar]
           /\ update' = fdGetUpdateInfo(body', update', fnUpdate).update
           /\ evolve' = evolve
     /\ pc = "halt" /\ ~HaltAnswersYes =>
           /\ pc' = "advance"
           /\ out' = out
     /\ pc # "halted"]_vars

\* A run that a halt has ended, its last snapshot being the terminal one.
C4_Witness ==
  /\ pc = "halted"
  /\ out[Len(out)].kind = "halt"
  /\ Lt(evolve.dTime, evolve.dStopTime)

WaterIndex(iB) == VarIndex(update[iB], "dSurfaceWaterMass")

\* C6: once a hook has desiccated a body, its water mass is zero, the water
\* contributor returns zero on it, every later step leaves zero water and a
\* zero water derivative on the scratch body, and the derivatives computed
\* after the hook are zero.
C6_DesiccationLatch ==
  hist.bDesiccated =>
     /\ body[2].dSurfaceWaterMass = Zero
     /\ fdDSurfaceWaterMassDt(body[2]) = Zero
     /\ pc = "force" =>
           /\ tmpBody[2].dSurfaceWaterMass = Zero
           /\ fdDSurfaceWaterMassDt(tmpBody[2]) = Zero
           /\ tmpUpdate[2][WaterIndex(2)].daDerivProc = <<Zero>>
     /\ pc \in {"advance", "loop", "step", "halted"} =>
           update[2][WaterIndex(2)].daDerivProc = <<Zero>>

\* A step taken after the desiccation, before its own hook.
C6_Witness ==
  /\ hist.bDesiccated /\ pc = "force"
  /\ WaterIndex(2) # 0
  /\ Lt(Zero, evolve.dCurrentDt)

\* C7 as stated: after the hook of a step, water at or below
\* dMinSurfaceWaterMass is zero and an envelope at or below dMinEnvelopeMass
\* is zero.
C7_ClampedAfterHook ==
  pc = "halt" =>
     \A iB \in DOMAIN body :
        /\ Le(body[iB].dSurfaceWaterMass, body[iB].dMinSurfaceWaterMass)
              => body[iB].dSurfaceWaterMass = Zero
        /\ Le(body[iB].dEnvelopeMass, body[iB].dMinEnvelopeMass)
              => body[iB].dEnvelopeMass = Zero

\* The four tabulated quantities of body c are those of body b.
StellarKept(b, c) ==
  /\ c.dLuminosity = b.dLuminosity
  /\ c.dRadius = b.dRadius
  /\ c.dTemperature = b.dTemperature
  /\ c.dRadGyra = b.dRadGyra

\* C11: a star on the tracks whose age is above the grid when its
\* derivatives are evaluated is in CONST mode afterwards; a star in CONST
\* mode stays in CONST mode, on the real and on the scratch body; and the
\* luminosity, radius, effective temperature and radius of gyration of the
\* star are, across the switch and across every later step of the program,
\* the values they had.
C11_ConstLatch ==
  [][\A iB \in DOMAIN body :
        /\ /\ pc \in {"main", "step"}
           /\ body[iB].iStellarModel = "BARAFFE"
           /\ Lt(GridHi, body[iB].dAge)
           => body'[iB].iStellarModel = "CONST"
        /\ /\ body[iB].iStellarModel = "BARAFFE"
           /\ body'[iB].iStellarModel = "CONST"
           => StellarKept(body[iB], body'[iB])
        /\ body[iB].iStellarModel = "CONST"
           => /\ body'[iB].iStellarModel = "CONST"
              /\ StellarKept(body[iB], body'[iB])
        /\ tmpBody[iB].iStellarModel = "CONST"
           => /\ tmpBody'[iB].iStellarModel = "CONST"
              /\ StellarKept(body[iB], tmpBody'[iB])]_vars

\* A star on a complete track that left the grid at its upper end, switched
\* with the values of the grid, and has since taken a whole step in CONST
\* mode.
C11_Witness ==
  /\ pc = "advance"
  /\ module[1] = <<"stellar">>
  /\ body[1].dMass # HoleMass
  /\ Lt(GridHi, body[1].dAge)
  /\ "OUTOFBOUNDS_HI" \in body[1].iaError
  /\ body[1].iStellarModel = "CONST"
  /\ hist.head.body[1].iStellarModel = "CONST"
  /\ ~IsNaN(body[1].dLuminosity)
  /\ body[1].dLuminosity = hist.head.body[1].dLuminosity

\* The error codes the lookups for body iB have met, on the real and on the
\* scratch body.
LookupErrors(iB) == body[iB].iaError \cup tmpBody[iB].iaError

CadenceRows == {i \in DOMAIN out : out[i].kind \in {"initial", "cadence"}}

\* C13, a consequence of the statement: the initial snapshot and the cadence
\* snapshots are written for different multiples of dOutputTime, so no two
\* of them carry the same simulated time.
C13_NoDoubleSnapshot ==
  \A i, j \in CadenceRows : i < j => Lt(out[i].dTime, out[j].dTime)

\* C14: the simulated time, and the time of every snapshot written, is at
\* most the stop time.
C14_WithinStopTime ==
  /\ Le(evolve.dTime, evolve.dStopTime)
  /\ \A i \in DOMAIN out : Le(out[i].dTime, evolve.dStopTime)

\* The messages printed for body iB by the calls on the real body and by the
\* calls on the scratch body.
RocheMessages(iB) == body[iB].nRocheMessages + tmpBody[iB].nRocheMessages

EnvelopeLostMessages(iB) ==
  body[iB].nEnvelopeLostMessages + tmpBody[iB].nEnvelopeLostMessages

AtmEscBodies ==
  {iB \in DOMAIN body : "atmesc" \in {module[iB][i] : i \in DOMAIN module[iB]}}

\* C16, as the code has it: a step entered with the body's age above its
\* Jeans time leaves the surface water, after the step's hook, as it was; so
\* water changes only in steps entered at an age at or below the Jeans time.
C16_JeansByAge ==
  pc = "halt" =>
     \A iB \in AtmEscBodies :
        Lt(hist.head.body[iB].dJeansTime, hist.head.body[iB].dAge)
           => body[iB].dSurfaceWaterMass = hist.head.body[iB].dSurfaceWaterMass

\* A planet that lost water before its Jeans time and has just taken a step
\* above it, with water left.
C16_Witness ==
  /\ pc = "halt"
  /\ Len(body) = 2
  /\ Lt(hist.head.body[2].dJeansTime, hist.head.body[2].dAge)
  /\ Lt(Zero, body[2].dSurfaceWaterMass)
  /\ Lt(body[2].dSurfaceWaterMass, FromInt(16))
  /\ body[2].dSurfaceWaterMass = hist.head.body[2].dSurfaceWaterMass
  /\ Lt(Zero, evolve.dCurrentDt)

\* C16 as stated: a step entered at a simulated time at or above the Jeans
\* time leaves the surface water as it was.
C16_JeansBySimulatedTime ==
  pc = "halt" =>
     \A iB \in AtmEscBodies :
        Le(hist.head.body[iB].dJeansTime, hist.head.dTime)
           => body[iB].dSurfaceWaterMass = hist.head.body[iB].dSurfaceWaterMass

\* C17: for a planet whose instellation is below the runaway-greenhouse
\* limit, the first auxiliary pass of the evolution sets dRGDuration to the
\* age of that pass, and no later step of the program changes it.
C17_RGDurationLatch ==
  [][\A iB \in AtmEscBodies :
        Lt(fdInstellation(body[iB]), fdHZRG14(body[iB])) =>
           /\ pc = "main" => body'[iB].dRGDuration = body[1].dAge
           /\ pc # "main" => body'[iB].dRGDuration = body[iB].dRGDuration]_vars

\* C18: for every body with an envelope variable, the values the last
\* derivative evaluation contributed to the planet mass and to the envelope
\* mass are the same, on the real body and on the scratch body.
C18_MassFollowsEnvelope ==
  \A iB \in AtmEscBodies :
     VarIndex(update[iB], "dEnvelopeMass") # 0 =>
        /\ update[iB][VarIndex(update[iB], "dMass")].daDerivProc
              = update[iB][VarIndex(update[iB], "dEnvelopeMass")].daDerivProc
        /\ tmpUpdate[iB][VarIndex(tmpUpdate[iB], "dMass")].daDerivProc
              = tmpUpdate[iB][VarIndex(tmpUpdate[iB], "dEnvelopeMass")].daDerivProc

\* iDir times the sum of what the contributors of variable iV of body iB
\* return in a derivative pass over the body array bodies.
ContributorSum(bodies, iB, iV, iDir) ==
  SumDir(fdGetUpdateInfo(bodies, update, fnUpdate).update[iB][iV].daDerivProc,
         iDir, 1, Zero)

\* The rate-kind variables of the update matrix, as (body, variable) pairs.
RateVars ==
  {p \in {<<iB, iV>> : iB \in DOMAIN update, iV \in 1..6} :
     /\ p[2] \in DOMAIN update[p[1]]
     /\ ~IsValueKind(update[p[1]][p[2]])}

\* The step just taken moved the rate variable p as a fourth-order
\* Runge-Kutta step whose trial derivatives are s times the contributors'
\* sums.
RK4Applied(p, s) ==
  /\ body[p[1]][update[p[1]][p[2]].pdVar] =
        Add(hist.head.body[p[1]][update[p[1]][p[2]].pdVar],
            Mul(Mul(Frac(1, 6),
                    Add(Add(Add(hist.d[1][p[1]][p[2]],
                                Mul(FromInt(2), hist.d[2][p[1]][p[2]])),
                            Mul(FromInt(2), hist.d[3][p[1]][p[2]])),
                        hist.d[4][p[1]][p[2]])),
                loc.dDt))
  /\ hist.d[1][p[1]][p[2]] = ContributorSum(hist.head.body, p[1], p[2], s)
  /\ \A k \in 1..3 :
        /\ hist.d[k + 1][p[1]][p[2]] = ContributorSum(hist.moved[k], p[1], p[2], s)
        /\ hist.moved[k][p[1]][update[p[1]][p[2]].pdVar] =
              Add(hist.head.body[p[1]][update[p[1]][p[2]].pdVar],
                  Mul(IF k = 3 THEN loc.dDt ELSE Mul(Frac(1, 2), loc.dDt),
                      hist.d[k][p[1]][p[2]]))

\* C21, as the code has it: after a step every rate-kind variable is its
\* value before the step plus dt*(f0 + 2*f1 + 2*f2 + f3)/6, where fk is iDir
\* (1 forward, -1 backward) times the sum of its contributors' results, f0 on
\* the real body, f1 and f2 on the scratch body advanced from the original
\* value by dt/2*f0 and dt/2*f1, f3 on the scratch body advanced from the
\* original value by dt*f2.
C21_RK4Rate ==
  pc = "force" => \A p \in RateVars : RK4Applied(p, loc.iDir)

\* A step of positive length on a rate variable whose trial derivatives
\* differ.
C21_Witness ==
  /\ pc = "force"
  /\ Lt(Zero, loc.dDt)
  /\ \E p \in RateVars :
        /\ hist.d[1][p[1]][p[2]] # hist.d[2][p[1]][p[2]]
        /\ IsFinite(hist.d[4][p[1]][p[2]])
        /\ body[p[1]][update[p[1]][p[2]].pdVar]
              # hist.head.body[p[1]][update[p[1]][p[2]].pdVar]

\* C21 as stated: fk is the plain sum of the contributors' results, in
\* either direction of integration.
C21_RK4RatePlainSum ==
  pc = "force" => \A p \in RateVars : RK4Applied(p, 1)

\* The variables of kind 0 of the update matrix, as (body, variable) pairs.
ValueVars ==
  {p \in {<<iB, iV>> : iB \in DOMAIN update, iV \in 1..6} :
     /\ p[2] \in DOMAIN update[p[1]]
     /\ update[p[1]][p[2]].iaType[1] = 0}

\* C22: after a step, every variable of kind 0 holds the number its
\* contributor returned on the body at the start of the step, in forward and
\* in backward integration alike.
C22_ValueAssigned ==
  pc = "force" =>
     \A p \in ValueVars :
        body[p[1]][update[p[1]][p[2]].pdVar]
           = ContributorSum(hist.head.body, p[1], p[2], 1)

\* The same for forward integration only.
ValueAssignedForward ==
  pc = "force" /\ evolve.bDoForward =>
     \A p \in ValueVars :
        body[p[1]][update[p[1]][p[2]].pdVar]
           = ContributorSum(hist.head.body, p[1], p[2], 1)

\* The timescales the selector compares at the head of the step when the
\* variables of kind 0 are left out: one for every equation of a rate
\* variable, the next output time for a variable of kind 10, and dHUGE.
TausWithoutValues ==
  {t \in {TauRate(hist.head.body[p[1]][update[p[1]][p[2]].pdVar],
                  fdGetUpdateInfo(hist.head.body, update, fnUpdate)
                     .update[p[1]][p[2]].daDerivProc[e]) :
            p \in {q \in RateVars : update[q[1]][q[2]].iaType[1] # 5},
            e \in {1}}
          \cup {TauRate(hist.head.body[p[1]][update[p[1]][p[2]].pdVar],
                        fdGetUpdateInfo(hist.head.body, update, fnUpdate)
                           .update[p[1]][p[2]].daDerivProc[e]) :
                  p \in {q \in RateVars :
                           /\ update[q[1]][q[2]].iaType[1] # 5
                           /\ Len(update[q[1]][q[2]].iaType) = 2},
                  e \in {2}}
          \cup {fdNextOutput(hist.head.dTime, io.dOutputTime) :
                  p \in {q \in {<<iB, iV>> : iB \in DOMAIN update, iV \in 1..6} :
                           /\ q[2] \in DOMAIN update[q[1]]
                           /\ update[q[1]][q[2]].iaType[1] = 10}}
          \cup {dHUGE} :
     ~IsNaN(t)}

\* C23: the timescale the selector returns for a step is the smallest of the
\* timescales of the other kinds' variables, whatever the values of the
\* variables of kind 0 and whatever their contributors return.
C23_ValuesIgnored ==
  pc = "force" =>
     /\ hist.dMin \in TausWithoutValues
     /\ \A t \in TausWithoutValues : Le(hist.dMin, t)

\* The same for the runs that have no variable of kind 0.
ValuesIgnoredWithoutValues ==
  pc = "force" /\ ValueVars = {} =>
     /\ hist.dMin \in TausWithoutValues
     /\ \A t \in TausWithoutValues : Le(hist.dMin, t)

\* The timescales of a selector that compares, for every rate variable, its
\* value with the sum of its contributions.
TausOfSums ==
  {t \in {TauRate(hist.head.body[p[1]][update[p[1]][p[2]].pdVar],
                  ContributorSum(hist.head.body, p[1], p[2], 1)) :
            p \in {q \in RateVars : update[q[1]][q[2]].iaType[1] # 5}}
          \cup {fdNextOutput(hist.head.dTime, io.dOutputTime) :
                  p \in {q \in {<<iB, iV>> : iB \in DOMAIN update, iV \in 1..6} :
                           /\ q[2] \in DOMAIN update[q[1]]
                           /\ update[q[1]][q[2]].iaType[1] = 10}}
          \cup {dHUGE} :
     ~IsNaN(t)}

\* C24: in a run without variables of kind 0, the timescale the selector
\* returns for a step is the smallest |x / sum of contributions| over the
\* rate variables, so that contributions that cancel do not limit the step.
C24_TauAgainstSum ==
  pc = "force" /\ ValueVars = {} =>
     /\ hist.dMin \in TausOfSums
     /\ \A t \in TausOfSums : Le(hist.dMin, t)

\* The same for the runs whose variables have one contributor each.
TauAgainstSumSingle ==
  pc = "force" /\ ValueVars = {}
     /\ (\A p \in RateVars : Len(fnUpdate[p[1]][p[2]]) = 1) =>
     /\ hist.dMin \in TausOfSums
     /\ \A t \in TausOfSums : Le(hist.dMin, t)

\* C25: when the stepper selects the timestep of the first step of an
\* evolution the first-step flag is still set, and the timescale it uses is
\* the seed dTimeStep.
C25_FirstStepSeeded ==
  pc = "force" /\ hist.head.dTime = Zero /\ StepsTaken = 0 =>
     /\ hist.head.bFirstStep
     /\ hist.dMin = evolve.dTimeStep

\* The variables of kind 10 of the update matrix, as (body, variable) pairs.
ExplicitVars ==
  {p \in {<<iB, iV>> : iB \in DOMAIN update, iV \in 1..6} :
     /\ p[2] \in DOMAIN update[p[1]]
     /\ update[p[1]][p[2]].iaType[1] = 10}

\* C26: in a run whose variables are all of kind 10, the timescale the
\* selector returns for a step is the time left until the next output.
C26_ExplicitTau ==
  pc = "force" /\ ExplicitVars # {} /\ RateVars = {} /\ ValueVars = {} =>
     hist.dMin = hist.dGap

\* The auxiliary properties of the body array bodies are those of its
\* primary variables: a further auxiliary pass changes nothing, as after a
\* pass that followed the last change.
AuxFresh(bodies) == PropertiesAuxiliary(bodies, module, io.iVerbose) = bodies

\* The derivative passes of the stepper find fresh auxiliary properties: on
\* the real bodies at the start of a step, on the scratch bodies at each
\* trial stage.
AuxFreshInStep ==
  /\ pc = "step" => AuxFresh(body)
  /\ pc = "force" => \A k \in 1..3 : AuxFresh(hist.moved[k])

\* C27: every derivative pass finds auxiliary properties computed after the
\* last change of the primary variables: at the start of a step, at each
\* trial stage, and in the pass made after the step and its hooks for the
\* halt check and the output.
C27_AuxBeforeDerivatives ==
  /\ AuxFreshInStep
  /\ pc = "halt" => AuxFresh(body)

\* The fields of BODY that the auxiliary hook, the contributors and the
\* force-behaviour hook of a module read or write.
ModuleTouches(name) ==
  IF name = "atmesc"
  THEN AtmEscFields \cup {"bEnvelopeLostMessage", "dAge", "dMass", "dRadius"}
  ELSE IF name = "stellar"
  THEN StellarFields \cup {"dRotPer", "dAge", "dMass", "dRadius", "dRadGyra",
                           "dRotRate"}
  ELSE ModuleFields(name)

\* C28: the refresh at the top of a step leaves every field that a module of
\* the body touches with the same value in the scratch body as in the body.
C28_ScratchRefreshed ==
  pc = "step" =>
     \A iB \in DOMAIN body : \A i \in DOMAIN module[iB] :
        \A f \in ModuleTouches(module[iB][i]) :
           BodyCopy(tmpBody, body, module)[iB][f] = body[iB][f]

\* The same for the fields of atmesc other than the envelope message flag.
ScratchRefreshedAtmEsc ==
  pc = "step" =>
     \A iB \in AtmEscBodies :
        \A f \in ModuleTouches("atmesc") \ {"bEnvelopeLostMessage"} :
           BodyCopy(tmpBody, body, module)[iB][f] = body[iB][f]

\* The simulated time up to which the step of this iteration has integrated
\* the bodies.
IntegratedTime == Add(hist.head.dTime, loc.dDt)

\* The snapshot written at the output cadence reports the time and the age
\* the bodies have been integrated to.
CadenceSnapshotTime ==
  pc = "loop" /\ hist.entered /\ loc.nSteps = 0 =>
     /\ out[Len(out)].kind = "cadence"
     /\ out[Len(out)].dTime = IntegratedTime
     /\ out[Len(out)].dAge
           = Add(hist.head.body[1].dAge, Mul(FromInt(loc.iDir), loc.dDt))

\* C29: every snapshot written in the main loop, the terminal snapshot of a
\* halt included, reports the time and the age up to which the bodies it
\* shows have been integrated.
C29_SnapshotTime ==
  /\ CadenceSnapshotTime
  /\ pc = "halted" =>
        /\ out[Len(out)].kind = "halt"
        /\ out[Len(out)].dTime = IntegratedTime
        /\ out[Len(out)].dAge
              = Add(hist.head.body[1].dAge, Mul(FromInt(loc.iDir), loc.dDt))

(***************************************************************************)
(* The water-escape predicate and the auxiliary pass on drawn bodies.      *)
(***************************************************************************)

\* Bodies the predicate and the pass can meet: water and envelope below, at
\* and above zero, the instellation below, at and above the limit, the age
\* (StartAge) above, at and below the Jeans time.
EscapeBodies ==
  { [Planet(w, o, e, loss, "NONE", inst, jeans, FALSE) EXCEPT !.dRGDuration = rg] :
      w \in {Neg(One), Zero, FromInt(16)}, o \in {Zero, FromInt(32), FromInt(512)},
      e \in {Neg(One), Zero, FromInt(2)}, loss \in {"LB15", "LBEXACT"},
      inst \in {One, FromInt(2), FromInt(4)},
      jeans \in {FromInt(7), FromInt(8), FromInt(9)}, rg \in {Zero, FromInt(5)} }

\* Bodies on either side of xi = 1, circumbinary or not (bBinary set and body
\* type 0), with and without an envelope.
KTideBodies ==
  { [Planet(FromInt(16), Zero, e, "LB15", "NONE", FromInt(4), FromInt(9), FALSE)
       EXCEPT !.bXiAboveOne = x, !.bBinary = bin, !.iBodyType = t] :
      e \in {Zero, FromInt(2)}, x \in BOOLEAN, bin \in BOOLEAN, t \in {0, 1} }

InitEscape ==
  \E p \in EscapeBodies \cup KTideBodies :
     /\ body = <<Star, p>>
     /\ tmpBody = <<Star, p>>
     /\ update = << <<>>, UpdateAtmEsc(p) >>
     /\ tmpUpdate = << <<>>, UpdateAtmEsc(p) >>
     /\ fnUpdate = << <<>>, AssignAtmEscDerivatives(p) >>
     /\ module = << <<>>, <<"atmesc">> >>
     /\ evolve = EvolveOf(CHOOSE en \in Engines : en.bVarDt /\ en.bDoForward /\ ~en.bHalts)
     /\ io = [dOutputTime |-> One, iVerbose |-> VERBINPUT]
     /\ halt = <<NoHalt, NoHalt>>
     /\ loc = [dDt |-> Zero, dTimeOut |-> Zero, nSteps |-> 0, iDir |-> 1]
     /\ out = <<>>
     /\ pc = "drawn"
     /\ hist = [NoHistory EXCEPT !.head = <<Star, p>>]

\* fbDoesWaterEscape(body, iBody) is called; its answer is put in out.
AskWaterEscape ==
  /\ pc = "drawn"
  /\ \E r \in {fbDoesWaterEscape(body[2])} :
        /\ body' = [body EXCEPT ![2] = r.body]
        /\ out' = <<[kind |-> "escape", ret |-> r.ret]>>
  /\ pc' = "asked"
  /\ UNCHANGED <<tmpBody, update, tmpUpdate, fnUpdate, module, evolve, io, halt,
                 loc, hist>>

\* PropertiesAuxiliary(body, control, update) is called.
AuxiliaryPass ==
  /\ pc = "drawn"
  /\ body' = PropertiesAuxiliary(body, module, io.iVerbose)
  /\ pc' = "aux"
  /\ UNCHANGED <<tmpBody, update, tmpUpdate, fnUpdate, module, evolve, io, halt,
                 loc, out, hist>>

NextEscape ==
  \/ AskWaterEscape
  \/ AuxiliaryPass

SpecEscape == InitEscape /\ [][NextEscape]_vars

\* C9, as the code has it: the predicate answers yes exactly when the
\* envelope mass is at most zero, the instellation is at least the limit,
\* the surface water mass is positive and the age is at most the Jeans time.
C9_EscapeAsCoded ==
  pc = "asked" =>
     (out[1].ret <=>
        /\ Le(hist.head[2].dEnvelopeMass, Zero)
        /\ Le(hist.head[2].dHZRG14, hist.head[2].dInstellation)
        /\ Lt(Zero, hist.head[2].dSurfaceWaterMass)
        /\ Le(hist.head[2].dAge, hist.head[2].dJeansTime))

\* C9 as stated: yes exactly when the envelope mass is zero, the
\* instellation exceeds the limit, water remains and the age is at most the
\* Jeans time.
C9_EscapeAsStated ==
  pc = "asked" =>
     (out[1].ret <=>
        /\ hist.head[2].dEnvelopeMass = Zero
        /\ Lt(hist.head[2].dHZRG14, hist.head[2].dInstellation)
        /\ Lt(Zero, hist.head[2].dSurfaceWaterMass)
        /\ Le(hist.head[2].dAge, hist.head[2].dJeansTime))

\* The predicate answers yes for a body whose instellation is the limit.
C9_Witness ==
  /\ pc = "asked" /\ out[1].ret
  /\ hist.head[2].dInstellation = hist.head[2].dHZRG14
  /\ hist.head[2].dEnvelopeMass = Zero

\* The oxygen mixing ratio of a body.
MixingRatioOf(b) == fdAtomicOxygenMixingRatio(b.dSurfaceWaterMass, b.dOxygenMass)

\* C10, as the code has it: after an auxiliary pass on an LBEXACT body whose
\* mixing ratio is above 0.6, the oxygen efficiency is zero, and the regime
\* is diffusion-limited when water escapes and NONE when it does not.
C10_RegimeAsCoded ==
  /\ pc = "aux"
  /\ body[2].iWaterLossModel = "LBEXACT"
  /\ Lt(Frac(6, 10), MixingRatioOf(body[2]))
  => /\ body[2].dOxygenEta = Zero
     /\ body[2].iWaterEscapeRegime = IF body[2].bRunaway THEN "DIFFLIM" ELSE "NONE"

\* C10 as stated: the regime is diffusion-limited and the efficiency zero.
C10_RegimeAsStated ==
  /\ pc = "aux"
  /\ body[2].iWaterLossModel = "LBEXACT"
  /\ Lt(Frac(6, 10), MixingRatioOf(body[2]))
  => /\ body[2].dOxygenEta = Zero
     /\ body[2].iWaterEscapeRegime = "DIFFLIM"

\* A pass on an LBEXACT body with escaping water and a mixing ratio above 0.6.
C10_Witness ==
  /\ pc = "aux"
  /\ body[2].iWaterLossModel = "LBEXACT"
  /\ Lt(Frac(6, 10), MixingRatioOf(body[2]))
  /\ body[2].bRunaway
  /\ body[2].iWaterEscapeRegime = "DIFFLIM"

(***************************************************************************)
(* Verification of a body's modules: the variables each module declares,   *)
(* the finalizers, the Verify functions of atmesc.c and stellar.c.  Here    *)
(* update[iBody] holds the counters of the UPDATE struct: iNum[v] is        *)
(* update[iBody].iNum<v>, iaModule[v] is update[iBody].iaModule[iVar] for   *)
(* the variable v, iEqnStellar[v] is update[iBody].i<v>Stellar.             *)
(***************************************************************************)

VerifyVars ==
  <<"SurfaceWaterMass", "OxygenMass", "OxygenMantleMass", "EnvelopeMass", "Mass",
    "Radius", "Luminosity", "RadGyra", "Rot", "LostAngMom", "LostEng",
    "Temperature">>

VarNames == {VerifyVars[i] : i \in DOMAIN VerifyVars}

\* The UPDATE struct of a body before any module has declared a variable.
NoUpdate ==
  [iNumVars |-> 0, iNum |-> [v \in VarNames |-> 0],
   iaModule |-> [v \in VarNames |-> <<>>],
   iEqnStellar |-> [v \in VarNames |-> 0]]

\* if (update[iBody].iNum<v> == 0) update[iBody].iNumVars++;
\* update[iBody].iNum<v>++;
Declare(u, v) ==
  [u EXCEPT !.iNumVars = IF u.iNum[v] = 0 THEN @ + 1 ELSE @,
            !.iNum[v] = @ + 1]

RECURSIVE DeclareAll(_, _)
DeclareAll(u, vs) ==
  IF vs = <<>> THEN u ELSE DeclareAll(Declare(u, Head(vs)), Tail(vs))

\* An initializer that declares each variable by its own quantity.
InitializeUpdateAtmEscOwn(b, u) ==
  DeclareAll(u,
    (IF Lt(Zero, b.dSurfaceWaterMass) THEN <<"SurfaceWaterMass">> ELSE <<>>)
    \o (IF Lt(Zero, b.dOxygenMass) THEN <<"OxygenMass">> ELSE <<>>)
    \o (IF Lt(Zero, b.dOxygenMantleMass) THEN <<"OxygenMantleMass">> ELSE <<>>)
    \o (IF Lt(Zero, b.dEnvelopeMass) THEN <<"EnvelopeMass">> ELSE <<>>)
    \o (IF Lt(Zero, b.dMass) THEN <<"Mass">> ELSE <<>>)
    \o (IF Lt(Zero, b.dRadius) THEN <<"Radius">> ELSE <<>>))

\* void InitializeUpdateAtmEsc(BODY *body, UPDATE *update, int iBody)
InitializeUpdateAtmEsc(b, u) ==
  DeclareAll(u,
    (IF Lt(Zero, b.dSurfaceWaterMass)
     THEN <<"SurfaceWaterMass", "OxygenMass", "OxygenMantleMass">> ELSE <<>>)
    \o (IF Lt(Zero, b.dEnvelopeMass) THEN <<"EnvelopeMass", "Mass">> ELSE <<>>)
    \o (IF Lt(Zero, b.dRadius) THEN <<"Radius">> ELSE <<>>))

\* void InitializeUpdateStellar(BODY *body, UPDATE *update, int iBody)
InitializeUpdateStellar(b, u) ==
  DeclareAll(u,
    <<"Luminosity">>
    \o (IF Lt(Zero, b.dRadius) THEN <<"Radius">> ELSE <<>>)
    \o (IF Lt(Zero, b.dRadGyra) /\ b.bEvolveRG THEN <<"RadGyra">> ELSE <<>>)
    \o <<"Rot", "LostAngMom", "LostEng">>
    \o (IF Lt(Zero, b.dTemperature) THEN <<"Temperature">> ELSE <<>>))

\* module->fnInitializeUpdate[iBody][iModule](body, update, iBody)
fnInitializeUpdate(name, b, u) ==
  IF name = "atmesc" THEN InitializeUpdateAtmEsc(b, u)
  ELSE IF name = "stellar" THEN InitializeUpdateStellar(b, u)
  ELSE u

\* update[iBody].iaModule[iVar][*iEqn] = MODULE;
\* update[iBody].iNum<v> = (*iEqn)++;
FinalizeCount(u, v, iEqn, name) ==
  [update |-> [u EXCEPT !.iaModule[v][iEqn + 1] = name, !.iNum[v] = iEqn],
   iEqn   |-> iEqn + 1]

\* update[iBody].iaModule[iVar][*iEqn] = STELLAR;
\* update[iBody].i<v>Stellar = (*iEqn)++;
FinalizeIndex(u, v, iEqn, name) ==
  [update |-> [u EXCEPT !.iaModule[v][iEqn + 1] = name, !.iEqnStellar[v] = iEqn],
   iEqn   |-> iEqn + 1]

\* The FinalizeUpdate<v>AtmEsc functions.
FinalizeUpdateAtmEsc(b, u, v, iEqn) ==
  IF v \in {"SurfaceWaterMass", "OxygenMass", "OxygenMantleMass", "EnvelopeMass",
            "Mass", "Radius"}
  THEN FinalizeCount(u, v, iEqn, "atmesc")
  ELSE [update |-> u, iEqn |-> iEqn]

\* The FinalizeUpdate<v>Stellar functions.
FinalizeUpdateStellar(b, u, v, iEqn) ==
  IF v \in {"Luminosity", "Radius", "Temperature"} \/ (v = "RadGyra" /\ b.bEvolveRG)
  THEN FinalizeCount(u, v, iEqn, "stellar")
  ELSE IF v \in {"Rot", "LostAngMom", "LostEng"}
  THEN FinalizeIndex(u, v, iEqn, "stellar")
  ELSE [update |-> u, iEqn |-> iEqn]

\* module->fnFinalizeUpdate<v>[iBody][iModule](body, update, &iEqn, iVar, iBody, iFoo)
\* for a module that declared the variable.
fnFinalizeUpdate(name, b, u, v, iEqn) ==
  IF name = "atmesc" THEN FinalizeUpdateAtmEsc(b, u, v, iEqn)
  ELSE IF name = "stellar" THEN FinalizeUpdateStellar(b, u, v, iEqn)
  ELSE [update |-> u, iEqn |-> iEqn]

\* Does the module declare the variable v for the body b?
Declares(name, b, v) == fnInitializeUpdate(name, b, NoUpdate).iNum[v] > 0

\* The finalizers of one variable, called for the modules in order with
\* iEqn starting at 0.
RECURSIVE FinalizeModules(_, _, _, _, _, _)
FinalizeModules(mods, b, u, v, iModule, iEqn) ==
  IF iModule > Len(mods) THEN u
  ELSE IF ~Declares(mods[iModule], b, v)
  THEN FinalizeModules(mods, b, u, v, iModule + 1, iEqn)
  ELSE With(fnFinalizeUpdate(mods[iModule], b, u, v, iEqn),
            LAMBDA r : FinalizeModules(mods, b, r.update, v, iModule + 1, r.iEqn))

\* The finalizers of every variable the body has: iaModule[v] is allocated
\* with one entry per declaring module, then the finalizers are called.
RECURSIVE FinalizeVars(_, _, _, _)
FinalizeVars(mods, b, u, iVar) ==
  IF iVar > Len(VerifyVars) THEN u
  ELSE IF u.iNum[VerifyVars[iVar]] = 0 THEN FinalizeVars(mods, b, u, iVar + 1)
  ELSE FinalizeVars(
         mods, b,
         FinalizeModules(
           mods, b,
           [u EXCEPT !.iaModule[VerifyVars[iVar]] =
                        [i \in 1..u.iNum[VerifyVars[iVar]] |-> "none"]],
           VerifyVars[iVar], 1, 0),
         iVar + 1)

\* void VerifyAtmEsc(...), for the radius models other than LEHMER17 and
\* output columns the model allows: does it exit, and the body it leaves.
VerifyAtmEsc(b, u) ==
  IF Lt(b.dMass, b.dEnvelopeMass) THEN [exit |-> TRUE, body |-> b]
  ELSE IF u.iNum["Radius"] > 1 THEN [exit |-> TRUE, body |-> b]
  ELSE [exit |-> FALSE,
        body |-> VerifyRadiusAtmEsc(
                   [b EXCEPT !.bEnvelopeLostMessage = FALSE,
                             !.bRocheMessage = FALSE, !.bCalcFXUV = FALSE,
                             !.dRGDuration = Zero])]

\* void VerifyStellar(...), for a star that evolves its radius of gyration
\* on the Baraffe grid: does it exit, and the body it leaves (the values the
\* grid gives are not modelled).
VerifyStellar(b, u) ==
  IF u.iNum["Luminosity"] > 1 THEN [exit |-> TRUE, body |-> b]
  ELSE IF u.iNum["Radius"] > 1 THEN [exit |-> TRUE, body |-> b]
  ELSE IF u.iNum["RadGyra"] > 1 THEN [exit |-> TRUE, body |-> b]
  ELSE IF u.iNum["Temperature"] > 1 THEN [exit |-> TRUE, body |-> b]
  ELSE [exit |-> FALSE, body |-> b]

\* module->fnVerify[iBody][iModule](...)
fnVerify(name, b, u) ==
  IF name = "atmesc" THEN VerifyAtmEsc(b, u)
  ELSE IF name = "stellar" THEN VerifyStellar(b, u)
  ELSE [exit |-> FALSE, body |-> b]

\* The variables whose matrix slot (iaType, iNumBodies, iaBody and the pd
\* pointer) VerifyAtmEsc writes: VerifySurfaceWaterMass, VerifyOxygenMass and
\* VerifyOxygenMantleMass if the water is positive, VerifyEnvelopeMass and
\* VerifyMassAtmEsc if the envelope is positive, VerifyRadiusAtmEsc whenever
\* the function does not exit before it.
VerifySlotsAtmEsc(b, u) ==
  (IF Lt(Zero, b.dSurfaceWaterMass)
   THEN {"SurfaceWaterMass", "OxygenMass", "OxygenMantleMass"} ELSE {})
  \cup (IF Lt(Zero, b.dEnvelopeMass) THEN {"EnvelopeMass", "Mass"} ELSE {})
  \cup (IF VerifyAtmEsc(b, u).exit THEN {} ELSE {"Radius"})

\* The variables whose matrix slot VerifyStellar writes, in the order of its
\* calls and exits: VerifyLuminosity, VerifyRadius, VerifyRadGyra (under
\* bEvolveRG), VerifyRotRate, VerifyTemperature, VerifyLostAngMomStellar,
\* VerifyLostEngStellar.
VerifySlotsStellar(b, u) ==
  IF u.iNum["Luminosity"] > 1 THEN {}
  ELSE {"Luminosity"}
       \cup (IF u.iNum["Radius"] > 1 \/ u.iNum["RadGyra"] > 1 THEN {}
             ELSE {"Radius", "Rot"}
                  \cup (IF b.bEvolveRG THEN {"RadGyra"} ELSE {})
                  \cup (IF u.iNum["Temperature"] > 1 THEN {}
                        ELSE {"Temperature", "LostAngMom", "LostEng"}))

VerifySlots(name, b, u) ==
  IF name = "atmesc" THEN VerifySlotsAtmEsc(b, u)
  ELSE IF name = "stellar" THEN VerifySlotsStellar(b, u)
  ELSE {}

\* The variables whose fnUpdate slot AssignAtmEscDerivatives writes.
AssignSlotsAtmEsc(b) ==
  (IF Lt(Zero, b.dSurfaceWaterMass)
   THEN {"SurfaceWaterMass", "OxygenMass", "OxygenMantleMass"} ELSE {})
  \cup (IF Lt(Zero, b.dEnvelopeMass) THEN {"EnvelopeMass", "Mass"} ELSE {})
  \cup {"Radius"}

\* The variables whose fnUpdate slot AssignStellarDerivatives writes.
AssignSlotsStellar(b) ==
  {"Rot", "LostAngMom", "LostEng", "Luminosity", "Radius"}
  \cup (IF b.bEvolveRG THEN {"RadGyra"} ELSE {})
  \cup {"Temperature"}

\* module->fnAssignDerivatives[iBody][iModule](...)
AssignSlots(name, b) ==
  IF name = "atmesc" THEN AssignSlotsAtmEsc(b)
  ELSE IF name = "stellar" THEN AssignSlotsStellar(b)
  ELSE {}

\* The slots a module has declared or written: the module, the variable and
\* the array written ("iNum" for a declaration).
Slots(name, vs, array) == { [module |-> name, var |-> v, array |-> array] : v \in vs }

\* A slot is written through the index a finalizer of the module has set; for
\* a variable the module has not declared no finalizer of it has run.
Undeclared(slots) ==
  { s \in slots :
      [module |-> s.module, var |-> s.var, array |-> "iNum"] \notin hist.declared }

\* The bodies whose modules are verified.
VerifyBodies ==
  { [Planet(w, o, e, "LB15", rad, FromInt(4), FromInt(1024), FALSE)
       EXCEPT !.dRadius = r, !.dRadGyra = rg, !.dTemperature = One] :
      w \in {Zero, FromInt(16)}, o \in {Zero, FromInt(32)},
      e \in {Zero, FromInt(2), FromInt(16)},
      rad \in {"NONE", "LOP12"}, r \in {Zero, FromInt(2)}, rg \in {Zero, One} }

ModuleLists ==
  {<<"atmesc">>, <<"stellar">>, <<"atmesc", "stellar">>, <<"stellar", "atmesc">>}

InitVerify ==
  \E p \in VerifyBodies, mods \in ModuleLists :
     /\ body = <<Star, p>>
     /\ tmpBody = <<Star, p>>
     /\ update = <<NoUpdate, NoUpdate>>
     /\ tmpUpdate = <<NoUpdate, NoUpdate>>
     /\ fnUpdate = << <<>>, <<>> >>
     /\ module = << <<>>, mods >>
     /\ evolve = EvolveOf(CHOOSE en \in Engines : en.bVarDt /\ en.bDoForward /\ ~en.bHalts)
     /\ io = [dOutputTime |-> One, iVerbose |-> VERBINPUT]
     /\ halt = <<NoHalt, NoHalt>>
     /\ loc = [iModule |-> 1]
     /\ out = <<>>
     /\ pc = "initupdate"
     /\ hist = [radiusClaims |-> {}, declared |-> {}, written |-> {}]

\* The next module of the body declares its variables.
InitializeUpdate ==
  /\ pc = "initupdate"
  /\ update' = [update EXCEPT
                  ![2] = fnInitializeUpdate(module[2][loc.iModule], body[2], @)]
  /\ hist' = [hist EXCEPT
                !.radiusClaims =
                   IF Declares(module[2][loc.iModule], body[2], "Radius")
                   THEN @ \cup {module[2][loc.iModule]} ELSE @,
                !.declared =
                   @ \cup Slots(module[2][loc.iModule],
                                { v \in DOMAIN update[2].iNum :
                                    Declares(module[2][loc.iModule], body[2], v) },
                                "iNum")]
  /\ IF loc.iModule = Len(module[2])
     THEN pc' = "finalize" /\ loc' = [loc EXCEPT !.iModule = 1]
     ELSE pc' = "initupdate" /\ loc' = [loc EXCEPT !.iModule = @ + 1]
  /\ UNCHANGED <<body, tmpBody, tmpUpdate, fnUpdate, module, evolve, io, halt, out>>

\* The finalizers of every variable of the body are called.
FinalizeUpdate ==
  /\ pc = "finalize"
  /\ update' = [update EXCEPT ![2] = FinalizeVars(module[2], body[2], @, 1)]
  /\ pc' = "verify"
  /\ UNCHANGED <<body, tmpBody, tmpUpdate, fnUpdate, module, evolve, io, halt,
                 loc, out, hist>>

\* The next module of the body verifies it: a fatal error ends the program,
\* and after the last module the derivatives are assigned.  A slot written
\* for a variable the module has not declared is written through an index
\* that was never set: the program goes on or is killed.
VerifyModule ==
  /\ pc = "verify"
  /\ \E r \in {fnVerify(module[2][loc.iModule], body[2], update[2])},
        w \in {Slots(module[2][loc.iModule],
                     VerifySlots(module[2][loc.iModule], body[2], update[2]),
                     "iaType")} :
        /\ hist' = [hist EXCEPT !.written = @ \cup w]
        /\ \/ /\ r.exit \/ Undeclared(w) # {}
              /\ pc' = "exit"
              /\ UNCHANGED <<body, loc>>
           \/ /\ ~r.exit
              /\ body' = [body EXCEPT ![2] = r.body]
              /\ IF loc.iModule = Len(module[2])
                 THEN pc' = "verified" /\ loc' = [loc EXCEPT !.iModule = 1]
                 ELSE pc' = "verify" /\ loc' = [loc EXCEPT !.iModule = @ + 1]
  /\ UNCHANGED <<tmpBody, update, tmpUpdate, fnUpdate, module, evolve, io, halt,
                 out>>

\* The next module of the body installs its derivative callbacks; after the
\* last module the evolution can start.
AssignDerivatives ==
  /\ pc = "verified"
  /\ \E w \in {Slots(module[2][loc.iModule],
                     AssignSlots(module[2][loc.iModule], body[2]), "fnUpdate")} :
        /\ hist' = [hist EXCEPT !.written = @ \cup w]
        /\ \/ /\ Undeclared(w) # {}
              /\ pc' = "exit"
              /\ UNCHANGED loc
           \/ IF loc.iModule = Len(module[2])
              THEN pc' = "assigned" /\ UNCHANGED loc
              ELSE pc' = "verified" /\ loc' = [loc EXCEPT !.iModule = @ + 1]
  /\ UNCHANGED <<body, tmpBody, update, tmpUpdate, fnUpdate, module, evolve, io,
                 halt, out>>

NextVerify ==
  \/ InitializeUpdate
  \/ FinalizeUpdate
  \/ VerifyModule
  \/ AssignDerivatives

SpecVerify == InitVerify /\ [][NextVerify]_vars

\* C8 as stated: verification does not end without a fatal error when two
\* modules of the body have declared its radius.
C8_DuplicateRadiusFatal ==
  pc = "verified" => Cardinality(hist.radiusClaims) < 2

\* C20: after an auxiliary pass of the atmospheric-escape module the body's
\* K_tide is 1.0, whether xi is above one or not and whether the planet is
\* circumbinary or not.
C20_KTideIsOne ==
  pc = "aux" => body[2].dKTide = One

\* A pass has run on a planet that is not circumbinary and has xi > 1, the
\* case in which the enhancement is computed.
C20_Witness ==
  /\ pc = "aux"
  /\ body[2].bXiAboveOne
  /\ ~(body[2].bBinary /\ body[2].iBodyType = 0)
  /\ body[2].dKTide = One
  /\ hist.head[2].dKTide # One

\* The variable v of the body has been declared by some module.
Declared(v) == update[2].iNum[v] > 0

\* Every module of the body has declared its variables, atmesc among them,
\* and no finalizer has run.
AtmEscDeclared ==
  pc = "finalize" /\ "atmesc" \in {module[2][i] : i \in DOMAIN module[2]}

\* C19, as the code has it: the surface water, the atmospheric oxygen and the
\* mantle oxygen are declared exactly when the initial surface water is
\* positive; the envelope mass and the planet mass exactly when the initial
\* envelope mass is positive; the radius exactly when the initial radius is
\* positive.
C19_DeclaredByGroup ==
  AtmEscDeclared =>
     /\ \A v \in {"SurfaceWaterMass", "OxygenMass", "OxygenMantleMass"} :
           Declared(v) <=> Lt(Zero, body[2].dSurfaceWaterMass)
     /\ \A v \in {"EnvelopeMass", "Mass"} :
           Declared(v) <=> Lt(Zero, body[2].dEnvelopeMass)
     /\ Declared("Radius") <=> Lt(Zero, body[2].dRadius)

\* A watery planet without oxygen and without an envelope: its oxygen
\* variables are declared and its mass is not.
C19_Witness ==
  /\ AtmEscDeclared
  /\ Lt(Zero, body[2].dSurfaceWaterMass)
  /\ body[2].dOxygenMass = Zero
  /\ Declared("OxygenMass")
  /\ body[2].dEnvelopeMass = Zero
  /\ Lt(Zero, body[2].dMass)
  /\ ~Declared("Mass")

\* C19 as stated: each of the six variables is declared exactly when its own
\* initial quantity is positive.
C19_DeclaredByOwnQuantity ==
  AtmEscDeclared =>
     /\ Declared("SurfaceWaterMass") <=> Lt(Zero, body[2].dSurfaceWaterMass)
     /\ Declared("OxygenMass") <=> Lt(Zero, body[2].dOxygenMass)
     /\ Declared("OxygenMantleMass") <=> Lt(Zero, body[2].dOxygenMantleMass)
     /\ Declared("EnvelopeMass") <=> Lt(Zero, body[2].dEnvelopeMass)
     /\ Declared("Mass") <=> Lt(Zero, body[2].dMass)
     /\ Declared("Radius") <=> Lt(Zero, body[2].dRadius)

\* C30 as stated: every matrix slot that a module's verify or
\* assign-derivatives step has written for the body belongs to a variable the
\* module's initialize-update declared for the body.
C30_WrittenSlotsDeclared ==
  Undeclared(hist.written) = {}

\* The water and envelope groups of atmesc are written exactly as declared.
WrittenGroupsDeclared ==
  \A s \in Undeclared(hist.written) :
     s.var \in {"Radius", "RadGyra"}

====
